---- MODULE Spec2Model ----
(***************************************************************************)
(* Model of the polygon-agent CLI: the wallet-linking handshake            *)
(* (wallet create / wallet start-session / callback listener) and the      *)
(* transaction dispatcher (runDappClientTx) with its fee-option tiers.     *)
(*                                                                         *)
(* Three specifications share one set of variables:                        *)
(*   SpecIngest  one ingestion applied to a drawn request/wallet store     *)
(*   Spec        the handshake protocol: create, callback wait, ingestion  *)
(*   SpecTx      execute: session sync, dry run, fee tiers, submission     *)
(***************************************************************************)
EXTENDS Integers, Sequences, FiniteSets, TLC

VARIABLES
  now,       \* wall clock (Date.now()), in ticks
  requests,  \* ~/.polygon-agent/requests : rid -> SessionRequest record
  wallets,   \* ~/.polygon-agent/wallets  : name -> WalletSession record
  last,      \* outcome of the most recent command (what it printed / threw)
  cw,        \* the walletCreateAndWait invocation (listener, promise, timer)
  tx,        \* the runDappClientTx invocation (position, client calls, result)
  consumed,  \* history: rids against which an ingestion has succeeded
  cmds,      \* number of one-shot CLI commands run in this behaviour
  perm,      \* applySessionPermissionParams applied to a URL: args and result
  stage,     \* the dapp-client state file of wallet main and the invocations
             \* of syncStateAndGetStorage / client.initialize working on it
  ui,        \* the connector UI page: its callbackUrl parameter and React state
  builder    \* ~/.polygon-agent/builder.json and the builderSetup invocation

vars == <<now, requests, wallets, last, cw, tx, consumed, cmds, perm, stage, ui, builder>>

(***************************************************************************)
(* Bounds of the model.                                                    *)
(***************************************************************************)
MaxTime == 3
MaxRid == 2
MaxConns == 2
MaxCmds == 2

(***************************************************************************)
(* JavaScript values: a type tag with a string and a number slot, so that  *)
(* truthiness (!x) and typeof are computed as the interpreter does.        *)
(***************************************************************************)
Undef == [t |-> "undefined", s |-> "", n |-> 0]
Null == [t |-> "null", s |-> "", n |-> 0]
Str(x) == [t |-> "string", s |-> x, n |-> 0]
Num(x) == [t |-> "number", s |-> "", n |-> x]
BigInt(x) == [t |-> "bigint", s |-> "", n |-> x]

Truthy(v) ==
  \/ v.t = "string" /\ v.s # ""
  \/ v.t = "number" /\ v.n # 0
  \/ v.t = "bigint" /\ v.n # 0
  \/ v.t = "object"

\* a || b
OrElse(a, b) == IF Truthy(a) THEN a ELSE b

\* JSON.stringify / JSON.parse: text is kept as the value it encodes, tagged
JSONStringify(v) == [json |-> v]
JSONParse(text) == text.json

\* new Date(ms).toISOString() / Date.parse(iso)
ToISOString(ms) == [iso |-> ms]
DateParse(d) == d.iso

(***************************************************************************)
(* Chains: normalizeChain and resolveNetwork over the network table.       *)
(***************************************************************************)
ToLowerCase(c) ==
  CASE c = "Polygon" -> "polygon"
    [] c = "0x3C49" -> "0x3c49"
    [] OTHER -> c

NormalizeChain(raw) ==
  LET c == ToLowerCase(raw) IN
  IF c = "" THEN "polygon"
  ELSE IF c = "matic" THEN "polygon"
  ELSE c

\* networks of @0xsequence/network that the model uses; 0 stands for the throw
\* 'Unknown chain'
ResolveNetwork(chain) ==
  CASE chain = "polygon" -> 137
    [] chain = "137" -> 137
    [] chain = "mainnet" -> 1
    [] chain = "1" -> 1
    [] OTHER -> 0

(***************************************************************************)
(* NaCl key pairs and sealed boxes.  A key pair is identified by the       *)
(* number k drawn when it was generated; a sealed box names the public key *)
(* it was sealed to.                                                       *)
(***************************************************************************)
PublicKey(k) == [half |-> "public", k |-> k]
SecretKey(k) == [half |-> "secret", k |-> k]

Seal(msg, pub) == [box |-> "sealed", k |-> pub.k, msg |-> msg]

\* sealedbox.open: null unless the box was sealed to this very key pair
SealedBoxOpen(c, pub, priv) ==
  IF c.box = "sealed" /\ pub.half = "public" /\ priv.half = "secret"
     /\ c.k = pub.k /\ c.k = priv.k
  THEN [ok |-> TRUE, msg |-> c.msg]
  ELSE [ok |-> FALSE, msg |-> c.msg]

(***************************************************************************)
(* Store (lib/storage.mjs): whole-document save, load, delete.             *)
(***************************************************************************)
Save(store, key, rec) ==
  [k \in DOMAIN store \cup {key} |-> IF k = key THEN rec ELSE store[k]]

Has(store, key) == key \in DOMAIN store

Delete(store, key) == [k \in DOMAIN store \ {key} |-> store[k]]

Empty == [k \in {} |-> 0]

(***************************************************************************)
(* The request record that walletCreate and walletCreateAndWait persist.   *)
(***************************************************************************)
RequestTTL == 2

\* createdAt is new Date() (read at t), expiresAt is Date.now() + 2 h (read at
\* t2, the next statement)
NewRequest(rid, name, chainArg, accessKey, t, t2) ==
  [rid |-> rid,
   walletName |-> name,
   chain |-> NormalizeChain(chainArg),
   createdAt |-> ToISOString(t),
   expiresAt |-> ToISOString(t2 + RequestTTL),
   publicKeyB64u |-> PublicKey(rid),
   privateKeyB64u |-> SecretKey(rid),
   projectAccessKey |-> OrElse(accessKey, Null)]

(***************************************************************************)
(* The decrypted payload (SessionEnvelope) as the approval surface builds  *)
(* it: JSON text of {rid, walletName, walletAddress, chainId,              *)
(* explicitSession{pk, config{deadline}}, implicit{pk, attestation,        *)
(* identitySignature, loginMethod}}.  json = FALSE is text JSON.parse      *)
(* rejects.                                                                *)
(***************************************************************************)
ExplicitObj(pk, deadline) ==
  [t |-> "object", s |-> "", n |-> 0, pk |-> pk, config |-> [deadline |-> deadline]]

NoExplicit(v) ==
  [t |-> v.t, s |-> v.s, n |-> v.n, pk |-> Undef, config |-> [deadline |-> Undef]]

ImplicitObj(pk, att, sig) ==
  [t |-> "object", s |-> "", n |-> 0, pk |-> pk, attestation |-> att,
   identitySignature |-> sig, loginMethod |-> Str("email")]

NoImplicit ==
  [t |-> "undefined", s |-> "", n |-> 0, pk |-> Undef, attestation |-> Undef,
   identitySignature |-> Undef, loginMethod |-> Undef]

Payload(j, r, wn, wa, cid, ex, im) ==
  [json |-> j, rid |-> r, walletName |-> wn, walletAddress |-> wa, chainId |-> cid,
   explicitSession |-> ex, implicit |-> im]

(***************************************************************************)
(* decryptAndSaveSession: the checks, in the order of the code.            *)
(***************************************************************************)
\* a check that passed hands over to the next statement
Then(thrown, rest) == IF thrown # "ok" THEN thrown ELSE rest

RequestExpired_Units(request, t) == t > DateParse(request.expiresAt) * 1000

\* Number.isFinite(exp) && Date.now() > exp  (exp is always a parsed ISO date)
RequestExpired(request, t) == t > DateParse(request.expiresAt)

\* JSON.parse of the decrypted text
CheckJSON(payload) == IF ~payload.json THEN "Invalid JSON" ELSE "ok"

CheckWalletAddress(payload) ==
  LET walletAddress == payload.walletAddress IN
  IF ~Truthy(walletAddress) \/ walletAddress.t # "string"
  THEN "Missing walletAddress in payload" ELSE "ok"

CheckChainId(payload) ==
  LET chainId == payload.chainId IN
  IF ~Truthy(chainId) \/ chainId.t # "number"
  THEN "Missing chainId in payload" ELSE "ok"

CheckChain_Adopt(chain, payload) ==
  IF ResolveNetwork(chain) = 0 THEN "Unknown chain" ELSE "ok"

\* resolveNetwork(chain) throws for an unknown chain; Number(net.chainId) !==
\* Number(chainId) for a chainId that passed the check above
CheckChain(chain, payload) ==
  LET net == ResolveNetwork(chain) IN
  IF net = 0 THEN "Unknown chain"
  ELSE IF net # payload.chainId.n THEN "Chain mismatch"
  ELSE "ok"

CheckExplicit(payload) ==
  LET explicitSession == payload.explicitSession IN
  IF ~Truthy(explicitSession) \/ explicitSession.t # "object"
  THEN "Missing explicitSession in payload"
  ELSE IF ~Truthy(explicitSession.pk) \/ explicitSession.pk.t # "string"
  THEN "Missing explicitSession.pk in payload"
  ELSE "ok"

CheckImplicit(payload) ==
  LET implicit == payload.implicit IN
  IF ~Truthy(implicit.pk) \/ ~Truthy(implicit.attestation)
     \/ ~Truthy(implicit.identitySignature)
  THEN "Missing implicit session in payload" ELSE "ok"

ValidatePayload_ChainIdFirst(chain, payload) ==
  Then(CheckJSON(payload),
  Then(CheckChainId(payload),
  Then(CheckWalletAddress(payload),
  Then(CheckChain(chain, payload),
  Then(CheckExplicit(payload),
       CheckImplicit(payload))))))

\* the statements between sealedbox.open and saveWalletSession, in order: "ok"
\* or the message of the first throw
ValidatePayload(chain, payload) ==
  Then(CheckJSON(payload),
  Then(CheckWalletAddress(payload),
  Then(CheckChainId(payload),
  Then(CheckChain(chain, payload),
  Then(CheckExplicit(payload),
       CheckImplicit(payload))))))

\* the record handed to saveWalletSession
SessionRecord(request, chain, payload, t) ==
  [walletAddress |-> payload.walletAddress,
   chainId |-> payload.chainId,
   chain |-> chain,
   projectAccessKey |-> OrElse(request.projectAccessKey, Null),
   explicitSession |-> JSONStringify(payload.explicitSession),
   sessionPk |-> payload.explicitSession.pk,
   implicitPk |-> payload.implicit.pk,
   implicitMeta |-> JSONStringify([loginMethod |-> payload.implicit.loginMethod]),
   implicitAttestation |-> JSONStringify(payload.implicit.attestation),
   implicitIdentitySig |-> JSONStringify(payload.implicit.identitySignature),
   createdAt |-> ToISOString(t)]

DecryptAndSaveSession_SaveEarly(name, ciphertext, rid, reqs, wals, t) ==
  IF ~Has(reqs, rid)
  THEN [err |-> "Request not found", opened |-> FALSE, wallets |-> wals]
  ELSE
    LET request == reqs[rid]
        chain == NormalizeChain(request.chain)
        decrypted == SealedBoxOpen(ciphertext, request.publicKeyB64u,
                                   request.privateKeyB64u)
        payload == decrypted.msg
        head == Then(CheckJSON(payload), Then(CheckWalletAddress(payload),
                Then(CheckChainId(payload), CheckChain(chain, payload))))
        saved == Save(wals, name, SessionRecord(request, chain, payload, t))
    IN
    IF RequestExpired(request, t)
    THEN [err |-> "Request is expired", opened |-> FALSE, wallets |-> wals]
    ELSE IF ~decrypted.ok
    THEN [err |-> "Failed to decrypt ciphertext", opened |-> TRUE, wallets |-> wals]
    ELSE IF head # "ok"
    THEN [err |-> head, opened |-> TRUE, wallets |-> wals]
    ELSE [err |-> Then(CheckExplicit(payload), CheckImplicit(payload)),
          opened |-> TRUE, wallets |-> saved]

DecryptAndSaveSession_Merge(name, ciphertext, rid, reqs, wals, t) ==
  LET res == DecryptAndSaveSession_SaveEarly(name, ciphertext, rid, reqs, wals, t)
  IN IF res.err # "ok" THEN [res EXCEPT !.wallets = wals]
     ELSE IF Has(wals, name)
     THEN [res EXCEPT !.wallets =
             Save(wals, name, [@[name] EXCEPT !.createdAt = wals[name].createdAt])]
     ELSE res

\* What one run of decryptAndSaveSession does to the stores at time t:
\* err is "ok" or the message thrown, opened tells whether sealedbox.open was
\* called, wallets is the wallet store it leaves.
DecryptAndSaveSession(name, ciphertext, rid, reqs, wals, t) ==
  IF ~Has(reqs, rid)
  THEN [err |-> "Request not found", opened |-> FALSE, wallets |-> wals]
  ELSE
    LET request == reqs[rid]
        chain == NormalizeChain(request.chain)
    IN
    IF RequestExpired(request, t)
    THEN [err |-> "Request is expired", opened |-> FALSE, wallets |-> wals]
    ELSE
      LET decrypted == SealedBoxOpen(ciphertext, request.publicKeyB64u,
                                     request.privateKeyB64u)
      IN
      IF ~decrypted.ok
      THEN [err |-> "Failed to decrypt ciphertext", opened |-> TRUE, wallets |-> wals]
      ELSE
        LET payload == decrypted.msg
            verdict == ValidatePayload(chain, payload)
        IN
        IF verdict # "ok"
        THEN [err |-> verdict, opened |-> TRUE, wallets |-> wals]
        ELSE [err |-> "ok", opened |-> TRUE,
              wallets |-> Save(wals, name, SessionRecord(request, chain, payload, t))]

(***************************************************************************)
(* Command inputs.                                                         *)
(***************************************************************************)
Names == {"main", "alt"}
ChainArgs == {"polygon", "matic", "bogus"}
AccessKeys == {Undef, Str("ak1")}
Rids == 1..MaxRid

WalletAddressVals == {Undef, Num(7), Str("0xA1")}
ChainIdVals == {Undef, Str("137"), Num(137), Num(1)}
ExplicitVals ==
  {NoExplicit(Undef), ExplicitObj(Undef, Num(2)), ExplicitObj(Str("pkE"), Num(2))}
ImplicitVals ==
  {ImplicitObj(Undef, Str("att"), Str("sig")),
   ImplicitObj(Str("pkI"), Undef, Str("sig")),
   ImplicitObj(Str("pkI"), Str("att"), Undef),
   ImplicitObj(Str("pkI"), Str("att"), Str("sig"))}

\* every combination of field defects, and text that is not JSON
AllPayloads ==
  {Payload(TRUE, 1, "main", wa, cid, ex, im) :
     wa \in WalletAddressVals, cid \in ChainIdVals,
     ex \in ExplicitVals, im \in ImplicitVals}
  \cup {Payload(FALSE, 1, "main", Undef, Undef, NoExplicit(Undef), NoImplicit)}

\* a payload the connector UI produces for request rid on chain id cid
GoodPayload(rid, name, addr, cid) ==
  Payload(TRUE, rid, name, Str(addr), Num(cid),
          ExplicitObj(Str("pkE"), Num(2)),
          ImplicitObj(Str("pkI"), Str("att"), Str("sig")))

Garbage == [box |-> "garbage", k |-> 0, msg |-> GoodPayload(0, "", "", 0)]

AllCiphertexts ==
  {Seal(p, PublicKey(k)) : p \in AllPayloads, k \in Rids} \cup {Garbage}

(***************************************************************************)
(* Outcome of the last finished command.                                   *)
(***************************************************************************)
\* the approval URL: <connector>/link?rid=..&wallet=..&pub=..&chain=..
\* [&callbackUrl=http://localhost:<port>/callback][&accessKey=..]
CallbackUrl(port) == [host |-> "localhost", port |-> port, path |-> "/callback"]

NoCallback == [host |-> "", port |-> 0, path |-> ""]

\* params: the pairs applySessionPermissionParams adds to url.searchParams, in
\* the order of the query string
ApprovalUrl_Leak(rid, name, pub, chain, accessKey, callbackUrl) ==
  [rid |-> rid, wallet |-> name, pub |-> SecretKey(pub.k), chain |-> chain,
   accessKey |-> OrElse(accessKey, Undef), callbackUrl |-> callbackUrl,
   params |-> <<>>]

ApprovalUrl(rid, name, pub, chain, accessKey, callbackUrl) ==
  [rid |-> rid, wallet |-> name, pub |-> pub, chain |-> chain,
   accessKey |-> OrElse(accessKey, Undef), callbackUrl |-> callbackUrl,
   params |-> <<>>]

NoUrl == ApprovalUrl(0, "", PublicKey(0), "", Undef, NoCallback)

\* what getArg / getArgs return for the permission flags of one command line
NoFlags ==
  [usdcTo |-> Undef, usdcAmount |-> Undef, nativeLimit |-> Undef,
   polLimit |-> Undef, usdcLimit |-> Undef, usdtLimit |-> Undef,
   tokenLimit |-> <<>>, contract |-> <<>>]

\* applySessionPermissionParams on its own: args are the flags, base the URL
\* before the first call, url the URL after n calls, fresh the result of one
\* call on a second URL equal to base, threw the usage error
PermIdle ==
  [args |-> NoFlags, base |-> NoUrl, url |-> NoUrl, n |-> 0,
   fresh |-> NoUrl, tried |-> FALSE, threw |-> FALSE]

\* file: state.storage.explicitSessions of <walletName>.state.enc; rereads:
\* the StateManager reads the file on every call (TRUE) or works on the copy
\* it holds in memory (FALSE); for each invocation: pc, the pk it loaded from
\* the wallet session, mem, the copy its StateManager holds, and client, the
\* explicit sessions its wallet client found at initialize
Invocations == {1, 2}

StageIdle ==
  [file |-> <<>>, rereads |-> TRUE,
   inv |-> [i \in Invocations |->
              [pc |-> "idle", pk |-> Undef, mem |-> <<>>, client |-> <<>>]]]

\* useState<string>(''): no ciphertext yet
NoCiphertext == [box |-> "", k |-> 0, msg |-> GoodPayload(0, "", "", 0)]

\* nothing handed to fetch or to a form
NoPost == [via |-> "none", protocol |-> "", hostname |-> "", ciphertext |-> NoCiphertext]

\* the connector UI page.  callbackUrl: the page's callbackUrl parameter, as
\* the pieces of its text; ciphertext, callbackSent, callbackFailed, error:
\* the React state; posted: what connect handed to fetch or form.submit
UiIdle ==
  [pc |-> "idle", rid |-> 0, callbackUrl |-> <<>>, ciphertext |-> NoCiphertext,
   callbackSent |-> FALSE, callbackFailed |-> FALSE, error |-> "", posted |-> NoPost]

\* loadBuilderConfig() of a store with no builder.json
NoConfig ==
  [exists |-> FALSE, privateKey |-> 0, eoaAddress |-> 0, accessKey |-> "", projectId |-> 0]

\* config: builder.json; the rest is the builderSetup invocation: before, the
\* config when it began; calls, the Builder API calls it made, each with
\* whether it succeeded; saved, whether it called saveBuilderConfig
BuilderIdle ==
  [config |-> NoConfig, pc |-> "idle", name |-> "", force |-> FALSE,
   before |-> NoConfig, privateKey |-> 0, projectId |-> 0, calls |-> <<>>,
   saved |-> FALSE, err |-> ""]

NoLast ==
  [cmd |-> "none", name |-> "", rid |-> 0, err |-> "", opened |-> FALSE,
   ct |-> Garbage, before |-> Empty, at |-> 0, used |-> {},
   url |-> NoUrl, steps |-> <<>>, secs |-> 0, auto |-> FALSE, files |-> <<>>]

\* before, at, used: the wallet store, the clock and the consumed rids when the
\* command ran; url: the approval URL it printed; steps: what a create
\* command did, in order; secs: the seconds a timeout message names; auto,
\* files: start-session ran without --rid, and the listing readdirSync gave it
Outcome(cmd, name, rid, res, ct) ==
  [cmd |-> cmd, name |-> name, rid |-> rid, err |-> res.err, opened |-> res.opened,
   ct |-> ct, before |-> wallets, at |-> now, used |-> consumed,
   url |-> NoUrl, steps |-> <<>>, secs |-> 0, auto |-> FALSE, files |-> <<>>]

\* listening: server.listen() has been called and server.close() has not
CwIdle ==
  [pc |-> "idle", name |-> "", rid |-> 0, listening |-> FALSE, conns |-> 0,
   promise |-> "pending", value |-> Garbage, race |-> "pending",
   timer |-> "unset", due |-> 0, status |-> 0, ok200 |-> 0, ingests |-> 0,
   posts |-> 0, first |-> Garbage, latest |-> Garbage,
   port |-> 0, url |-> NoUrl, steps |-> <<>>,
   timeoutArg |-> Undef, timeoutSec |-> 0]

\* a fee option: the token's contract address ("" for the native asset), the
\* payee, and the call that produced it
FeeOption(addr, to, via) ==
  [t |-> "object", s |-> "", n |-> 0, contractAddress |-> addr, to |-> to, via |-> via]

NoFee ==
  [t |-> "undefined", s |-> "", n |-> 0, contractAddress |-> "", to |-> "", via |-> ""]

NoFeeTokens ==
  [thrown |-> TRUE, paymentAddress |-> Undef, isArray |-> FALSE, tokens |-> <<>>]

NoBalances == [thrown |-> TRUE, held |-> {}]

\* calls: the wallet-client calls made so far, in order; before: the wallet
\* store when the command started; feeTokens, balances: what getFeeTokens
\* answered and what the balance service had to say; sent: the hashes
\* sendTransaction returned; txHash: the hash the command returned
TxIdle ==
  [pc |-> "idle", cmd |-> "", flag |-> FALSE, executed |-> FALSE,
   broadcast |-> FALSE, preferNativeFee |-> FALSE, indexerKey |-> FALSE,
   clientBuilt |-> FALSE, calls |-> <<>>, feeOpt |-> NoFee,
   err |-> "", result |-> "none", before |-> Empty, at |-> 0,
   feeTokens |-> NoFeeTokens, balances |-> NoBalances, sent |-> <<>>, txHash |-> "",
   chainId |-> 0]

(***************************************************************************)
(* wallet start-session: --rid given (ridArg > 0) or auto-detected by a    *)
(* scan of the request directory (ridArg = 0).                             *)
(***************************************************************************)
\* the request files in readdirSync order
RequestFiles(reqs) ==
  LET F[S \in SUBSET DOMAIN reqs] ==
        IF S = {} THEN <<>>
        ELSE LET m == CHOOSE x \in S : \A y \in S : x <= y
             IN <<m>> \o F[S \ {m}]
  IN F[DOMAIN reqs]

\* first file whose request carries this wallet name; 0 when none does
AutoDetectRid(reqs, name) ==
  LET files == RequestFiles(reqs)
      hits == {i \in 1..Len(files) : reqs[files[i]].walletName = name}
  IN IF hits = {} THEN 0
     ELSE files[CHOOSE i \in hits : \A j \in hits : i <= j]

WalletStartSession(name, ct, ridArg) ==
  LET rid == IF ridArg # 0 THEN ridArg ELSE AutoDetectRid(requests, name)
      res == IF rid = 0
             THEN [err |-> "No matching request found", opened |-> FALSE,
                   wallets |-> wallets]
             ELSE DecryptAndSaveSession(name, ct, rid, requests, wallets, now)
  IN /\ cmds < MaxCmds
     /\ wallets' = res.wallets
     /\ last' = Outcome("start-session", name, rid, res, ct)
     /\ consumed' = IF res.err = "ok" THEN consumed \cup {rid} ELSE consumed
     /\ cmds' = cmds + 1
     /\ UNCHANGED <<now, requests, cw, tx, perm, stage, ui, builder>>

(***************************************************************************)
(* SpecIngest: one ingestion from every store the program can have left:   *)
(* no request or one request created at some earlier time, already linked  *)
(* once or not.                                                            *)
(***************************************************************************)
InitIngest ==
  /\ now \in 0..MaxTime
  /\ last = NoLast
  /\ cmds = 0
  /\ perm = PermIdle
  /\ ui = UiIdle
  /\ builder = BuilderIdle
  /\ stage = StageIdle
  /\ cw = CwIdle
  /\ tx = TxIdle
  /\ \/ requests = Empty /\ wallets = Empty /\ consumed = {}
     \/ \E c \in 0..now, ch \in ChainArgs, ak \in AccessKeys, linked \in BOOLEAN :
          LET r == NewRequest(1, "main", ch, ak, c, c) IN
          /\ requests = Save(Empty, 1, r)
          /\ wallets =
               IF linked /\ ResolveNetwork(r.chain) # 0
               THEN DecryptAndSaveSession("main",
                      Seal(GoodPayload(1, "main", "0xB2", ResolveNetwork(r.chain)),
                           PublicKey(1)),
                      1, requests, Empty, c).wallets
               ELSE Empty
          /\ consumed = IF wallets = Empty THEN {} ELSE {1}

NextIngest ==
  /\ last.cmd = "none"
  /\ \E name \in Names, ct \in AllCiphertexts, ridArg \in 0..MaxRid :
       WalletStartSession(name, ct, ridArg)

SpecIngest == InitIngest /\ [][NextIngest]_vars

(***************************************************************************)
(* Properties of ingestion, stated on the outcome of the last command.     *)
(***************************************************************************)
LastIngest == last.cmd \in {"start-session", "create-and-wait"}

LastRequestFound == LastIngest /\ Has(requests, last.rid)

LastRequest == requests[last.rid]

\* the ciphertext was sealed to the request's key and holds JSON
LastOpens ==
  /\ last.ct.box = "sealed"
  /\ last.ct.k = LastRequest.publicKeyB64u.k
  /\ last.ct.msg.json

LastPayload == last.ct.msg

LastNet == ResolveNetwork(LastRequest.chain)

\* the six validation rules, read off the input alone
RuleBroken(i) ==
  CASE i = 1 -> DateParse(LastRequest.expiresAt) < last.at
    [] i = 2 -> ~(LastPayload.walletAddress.t = "string"
                  /\ LastPayload.walletAddress.s # "")
    [] i = 3 -> ~(LastPayload.chainId.t = "number" /\ LastPayload.chainId.n # 0)
    [] i = 4 -> LastPayload.chainId.n # LastNet \/ LastNet = 0
    [] i = 5 -> ~(/\ LastPayload.explicitSession.t = "object"
                  /\ LastPayload.explicitSession.pk.t = "string"
                  /\ LastPayload.explicitSession.pk.s # "")
    [] i = 6 -> \/ ~Truthy(LastPayload.implicit.pk)
                \/ ~Truthy(LastPayload.implicit.attestation)
                \/ ~Truthy(LastPayload.implicit.identitySignature)

BrokenRules == {i \in 1..6 : RuleBroken(i)}

FirstBroken == CHOOSE i \in BrokenRules : \A j \in BrokenRules : i <= j

RuleErrors(i) ==
  CASE i = 1 -> {"Request is expired"}
    [] i = 2 -> {"Missing walletAddress in payload"}
    [] i = 3 -> {"Missing chainId in payload"}
    [] i = 4 -> {"Chain mismatch", "Unknown chain"}
    [] i = 5 -> {"Missing explicitSession in payload",
                 "Missing explicitSession.pk in payload"}
    [] i = 6 -> {"Missing implicit session in payload"}

\* every field of a stored session is populated
CompleteSession(sess) ==
  /\ sess.walletAddress.t = "string" /\ sess.walletAddress.s # ""
  /\ sess.chainId.t = "number" /\ sess.chainId.n = ResolveNetwork(sess.chain)
  /\ sess.chainId.n # 0
  /\ JSONParse(sess.explicitSession).t = "object"
  /\ sess.sessionPk = JSONParse(sess.explicitSession).pk
  /\ Truthy(sess.sessionPk)
  /\ Truthy(sess.implicitPk)
  /\ Truthy(JSONParse(sess.implicitAttestation))
  /\ Truthy(JSONParse(sess.implicitIdentitySig))

\* C3: ingestion is all-or-nothing: it either passes every check and leaves
\* the store with one complete session written under the name and every other
\* name as before, or it fails and leaves the wallet store exactly as before.
C3_AllOrNothing ==
  LastIngest =>
    \/ /\ last.err = "ok"
       /\ LastRequestFound
       /\ LastOpens
       /\ BrokenRules = {}
       /\ DOMAIN wallets = DOMAIN last.before \cup {last.name}
       /\ CompleteSession(wallets[last.name])
       /\ wallets[last.name].createdAt = ToISOString(last.at)
       /\ \A n \in DOMAIN last.before \ {last.name} : wallets[n] = last.before[n]
    \/ /\ last.err # "ok"
       /\ wallets = last.before

\* a validation failure over a session already stored under that name
C3_Witness ==
  /\ LastIngest
  /\ last.err = "Missing implicit session in payload"
  /\ Has(last.before, last.name)
  /\ wallets = last.before

\* C4: ingestion against a request whose expiresAt is earlier than the clock
\* fails with the expired-request error, before sealedbox.open is called, and
\* writes nothing, whatever the ciphertext.
C4_ExpiredFirst ==
  (LastRequestFound /\ DateParse(LastRequest.expiresAt) < last.at) =>
    /\ last.err = "Request is expired"
    /\ ~last.opened
    /\ wallets = last.before

\* an expired request met by a ciphertext that would decrypt and validate
C4_Witness ==
  /\ LastRequestFound
  /\ LastOpens
  /\ BrokenRules = {1}
  /\ last.err = "Request is expired"

\* C5 as stated: every decrypted envelope whose chainId is another chain's id
\* fails with the chain-mismatch error and writes nothing.
C5_Original ==
  (/\ LastRequestFound
   /\ ~RuleBroken(1)
   /\ LastOpens
   /\ LastNet # 0
   /\ LastPayload.chainId.t = "number"
   /\ LastPayload.chainId.n # LastNet) =>
    /\ last.err = "Chain mismatch"
    /\ wallets = last.before

\* C5 amended: a decrypted envelope whose walletAddress is a non-empty string
\* and whose chainId is a non-zero number other than the id the request's chain
\* resolves to fails with the chain-mismatch error and writes nothing, whatever
\* its other fields; any envelope whose chainId differs is rejected and
\* writes nothing.
C5_ChainMismatch ==
  (/\ LastRequestFound
   /\ ~RuleBroken(1)
   /\ LastOpens
   /\ LastNet # 0
   /\ LastPayload.chainId # Num(LastNet)) =>
    /\ last.err # "ok"
    /\ wallets = last.before
    /\ (~RuleBroken(2) /\ ~RuleBroken(3)) => last.err = "Chain mismatch"

\* the chain id is the only defect of the envelope
C5_Witness ==
  /\ LastRequestFound
  /\ LastOpens
  /\ BrokenRules = {4}
  /\ LastNet # 0
  /\ last.err = "Chain mismatch"
  /\ wallets = last.before

PermissionUsageError(flags) ==
  /\ Truthy(flags.usdcTo) \/ Truthy(flags.usdcAmount)
  /\ ~Truthy(flags.usdcTo) \/ ~Truthy(flags.usdcAmount)

UsageMessage == "Must provide both --usdc-to and --usdc-amount"

FlagSets == {NoFlags, [NoFlags EXCEPT !.usdcTo = Str("0xR")]}

\* URLSearchParams.set(name, value): the first pair of that name takes the
\* value and the others of that name are removed; appended when there is none
ParamNames(searchParams) == {searchParams[i].k : i \in DOMAIN searchParams}

SearchParamsSet_Append(searchParams, name, value) ==
  Append(searchParams, [k |-> name, v |-> value])

SearchParamsSet(searchParams, name, value) ==
  IF name \in ParamNames(searchParams)
  THEN LET first == CHOOSE i \in DOMAIN searchParams :
                      /\ searchParams[i].k = name
                      /\ \A j \in 1..(i - 1) : searchParams[j].k # name
           kept == {i \in DOMAIN searchParams : searchParams[i].k # name \/ i = first}
           Pick[n \in 0..Len(searchParams)] ==
             IF n = 0 THEN <<>>
             ELSE IF n \in kept
                  THEN Append(Pick[n - 1],
                              IF n = first THEN [k |-> name, v |-> value]
                              ELSE searchParams[n])
                  ELSE Pick[n - 1]
       IN Pick[Len(searchParams)]
  ELSE Append(searchParams, [k |-> name, v |-> value])

\* String(s || '').trim()
Trim(str) ==
  CASE str = " 0xC1 " -> "0xC1"
    [] str = " USDC:50" -> "USDC:50"
    [] str = "  " -> ""
    [] OTHER -> str

\* .map((s) => String(s || '').trim()).filter(Boolean)
TrimAll(list) ==
  LET T[n \in 0..Len(list)] ==
        IF n = 0 THEN <<>>
        ELSE IF Trim(list[n]) = "" THEN T[n - 1]
             ELSE Append(T[n - 1], Trim(list[n]))
  IN T[Len(list)]

\* [...new Set(list)]: the first occurrence of every string, in order
Unique(list) ==
  LET U[n \in 0..Len(list)] ==
        IF n = 0 THEN <<>>
        ELSE IF \E i \in 1..(n - 1) : list[i] = list[n] THEN U[n - 1]
             ELSE Append(U[n - 1], list[n])
  IN U[Len(list)]

ERC8004_CONTRACTS == <<"0x8004A169", "0x8004BAa1">>

\* the statements of applySessionPermissionParams after the usage check, on
\* the pairs of url.searchParams; a list value stands for its join(',')
Erc20Params(sp, flags) ==
  IF Truthy(flags.usdcTo) \/ Truthy(flags.usdcAmount)
  THEN SearchParamsSet(
         SearchParamsSet(SearchParamsSet(sp, "erc20", <<"usdc">>),
                         "erc20To", <<flags.usdcTo.s>>),
         "erc20Amount", <<flags.usdcAmount.s>>)
  ELSE sp

UsdcLimit_NoDefault(flags) == flags.usdcLimit

UsdcLimit(flags) == OrElse(flags.usdcLimit, Str("50"))

LimitParams(sp, flags) ==
  LET nativeLimit == OrElse(flags.nativeLimit, flags.polLimit)
      usdcLimit == UsdcLimit(flags)
      usdtLimit == flags.usdtLimit
      a == IF Truthy(nativeLimit)
           THEN SearchParamsSet(sp, "nativeLimit", <<nativeLimit.s>>) ELSE sp
      b == SearchParamsSet(a, "usdcLimit", <<usdcLimit.s>>)
  IN IF Truthy(usdtLimit) THEN SearchParamsSet(b, "usdtLimit", <<usdtLimit.s>>) ELSE b

TokenLimitParams(sp, flags) ==
  LET tokenLimits == TrimAll(flags.tokenLimit)
  IN IF Len(tokenLimits) # 0 THEN SearchParamsSet(sp, "tokenLimits", tokenLimits)
     ELSE sp

AllContracts_UserOnly(flags) == Unique(TrimAll(flags.contract))

AllContracts(flags) == Unique(ERC8004_CONTRACTS \o TrimAll(flags.contract))

ContractParams(sp, flags) == SearchParamsSet(sp, "contracts", AllContracts(flags))

ApplySessionPermissionParams(url, flags) ==
  [url EXCEPT !.params =
     ContractParams(TokenLimitParams(LimitParams(Erc20Params(@, flags), flags),
                                     flags), flags)]

Did(steps, step) == \E i \in DOMAIN steps : steps[i] = step

Before(steps, a, b) ==
  \E i, j \in DOMAIN steps : i < j /\ steps[i] = a /\ steps[j] = b

MaxApply == 2

PermApply ==
  /\ perm.n < MaxApply
  /\ ~perm.threw
  /\ perm' = IF PermissionUsageError(perm.args)
             THEN [perm EXCEPT !.threw = TRUE]
             ELSE [perm EXCEPT !.url = ApplySessionPermissionParams(@, perm.args),
                               !.n = @ + 1]
  /\ UNCHANGED <<now, requests, wallets, last, cw, tx, consumed, cmds, stage, ui, builder>>

PermApplyFresh ==
  /\ ~perm.tried
  /\ ~PermissionUsageError(perm.args)
  /\ perm' = [perm EXCEPT !.fresh = ApplySessionPermissionParams(perm.base, perm.args),
                          !.tried = TRUE]
  /\ UNCHANGED <<now, requests, wallets, last, cw, tx, consumed, cmds, stage, ui, builder>>

\* the order of walletCreate's statements
WalletCreateSteps(usageError) ==
  IF usageError THEN <<"saveWalletRequest", "throw">>
  ELSE <<"saveWalletRequest", "print">>

\* skew: what the clock advances between the two reads of NewRequest
Skews == {0, 1}

WalletCreate(name, chainArg, accessKey, flags, skew) ==
  /\ cmds < MaxCmds
  /\ now + skew <= MaxTime
  /\ \E rid \in Rids \ DOMAIN requests :
       LET steps == WalletCreateSteps(PermissionUsageError(flags))
           request == NewRequest(rid, name, chainArg, accessKey, now, now + skew)
           url == ApplySessionPermissionParams(
                    ApprovalUrl(rid, name, request.publicKeyB64u, request.chain,
                                accessKey, NoCallback), flags)
       IN /\ requests' = IF Did(steps, "saveWalletRequest")
                         THEN Save(requests, rid, request) ELSE requests
          /\ last' = [Outcome("create", name, rid,
                        [err |-> IF Did(steps, "throw") THEN UsageMessage ELSE "ok",
                         opened |-> FALSE], Garbage)
                      EXCEPT !.url = IF Did(steps, "print") THEN url ELSE NoUrl,
                             !.steps = steps]
  /\ now' = now + skew
  /\ cmds' = cmds + 1
  /\ UNCHANGED <<wallets, cw, tx, consumed, perm, stage, ui, builder>>

WalletRemove(name) ==
  /\ cmds < MaxCmds
  /\ wallets' = Delete(wallets, name)
  /\ last' = Outcome("remove", name, 0,
               [err |-> IF Has(wallets, name) THEN "ok" ELSE "Wallet not found",
                opened |-> FALSE], Garbage)
  /\ cmds' = cmds + 1
  /\ UNCHANGED <<now, requests, cw, tx, consumed, perm, stage, ui, builder>>

PermFlagSets ==
  {[usdcTo |-> e[1], usdcAmount |-> e[2], nativeLimit |-> nl[1],
    polLimit |-> nl[2], usdcLimit |-> ul, usdtLimit |-> tl,
    tokenLimit |-> tk, contract |-> ct] :
     e \in {<<Undef, Undef>>, <<Str("0xR"), Str("5")>>,
            <<Str("0xR"), Undef>>, <<Undef, Str("5")>>},
     nl \in {<<Undef, Undef>>, <<Str("1"), Undef>>, <<Undef, Str("2")>>},
     ul \in {Undef, Str(""), Str("10")},
     tl \in {Undef, Str("7")},
     tk \in {<<>>, <<"  ">>, <<" USDC:50", "WETH:1">>},
     ct \in {<<>>, <<"0xC1">>, <<" 0xC1 ", "0xC1", "0x8004BAa1">>,
             <<"0x8004a169", "">>}}

BaseUrls ==
  {ApprovalUrl(rid, "main", PublicKey(rid), "polygon", Undef, cb) :
     rid \in {0, 1}, cb \in {NoCallback, CallbackUrl(4001)}}

InitParams ==
  /\ now = 0
  /\ requests = Empty
  /\ wallets = Empty
  /\ last = NoLast
  /\ cw = CwIdle
  /\ tx = TxIdle
  /\ consumed = {}
  /\ cmds = 0
  /\ stage = StageIdle
  /\ ui = UiIdle
  /\ builder = BuilderIdle
  /\ perm \in {[PermIdle EXCEPT !.args = f, !.base = u, !.url = u] :
                 f \in PermFlagSets, u \in BaseUrls}

NextParams == PermApply \/ PermApplyFresh

SpecParams == InitParams /\ [][NextParams]_vars

(***************************************************************************)
(* wallet create (callback-server mode): walletCreateAndWait.              *)
(*   pc  idle -> waiting -> ingest -> done | exited                        *)
(* conns counts connections the listener accepted whose request is not yet *)
(* handled; server.close() stops accepting and leaves them open.           *)
(* posts, first, latest are history: the well-formed POSTs handled.        *)
(***************************************************************************)
MAX_BODY == 65536

\* --timeout values; none given is '300'
TimeoutArgs == {Undef, Str("0"), Str("1")}

ParseInt(v) ==
  CASE v.s = "0" -> 0
    [] v.s = "1" -> 1
    [] v.s = "300" -> 300

\* parseInt(getArg(args, '--timeout') || '300', 10)
TimeoutSec_NoDefault(arg) == ParseInt(OrElse(arg, Str("0")))

TimeoutSec(arg) == ParseInt(OrElse(arg, Str("300")))

Ports == {4001, 4002}

Alive == cw.pc \in {"waiting", "ingest", "done"}

\* req.url.startsWith('/callback')
StartsWithCallback(url) == url \in {"/callback", "/callback-x"}

Field(t, str, box) == [t |-> t, s |-> str, n |-> 0, box |-> box]

Respond_AtLimit(req) ==
  IF req.method = "OPTIONS" THEN 204
  ELSE IF req.method # "POST" \/ ~StartsWithCallback(req.url) THEN 404
  ELSE IF req.size >= MAX_BODY THEN 413
  ELSE IF ~req.parses THEN 400
  ELSE IF ~Truthy(req.ciphertext) \/ req.ciphertext.t # "string" THEN 400
  ELSE 200

\* status the handler answers with
Respond(req) ==
  IF req.method = "OPTIONS" THEN 204
  ELSE IF req.method # "POST" \/ ~StartsWithCallback(req.url) THEN 404
  ELSE IF req.size > MAX_BODY THEN 413
  ELSE IF ~req.parses THEN 400
  ELSE IF ~Truthy(req.ciphertext) \/ req.ciphertext.t # "string" THEN 400
  ELSE 200

ResolveCallback_Overwrite(c, ciphertext) ==
  [c EXCEPT !.promise = "resolved", !.value = ciphertext]

\* resolveCallback(data.ciphertext): a settled promise ignores the call
ResolveCallback(c, ciphertext) ==
  IF c.promise = "pending"
  THEN [c EXCEPT !.promise = "resolved", !.value = ciphertext]
  ELSE c

\* await Promise.race([...]) resumes on the first settlement: finally
\* server.close(), then on to decryptAndSaveSession
RaceResolved(c) ==
  IF c.race = "pending" /\ c.promise = "resolved"
  THEN [c EXCEPT !.race = "resolved", !.listening = FALSE, !.pc = "ingest"]
  ELSE c

\* the order of walletCreateAndWait's statements up to the wait
CwStartSteps_PrintFirst(usageError) ==
  IF usageError THEN <<"saveWalletRequest", "listen", "throw">>
  ELSE <<"saveWalletRequest", "print", "listen", "setTimeout">>

CwStartSteps(usageError) ==
  IF usageError THEN <<"saveWalletRequest", "listen", "throw">>
  ELSE <<"saveWalletRequest", "listen", "print", "setTimeout">>

\* server.address().port when the URL is built
BoundPort(steps, port) == IF Before(steps, "listen", "print") THEN port ELSE 0

CwStart(name, chainArg, accessKey, timeoutArg, flags, skew, port) ==
  /\ cw.pc = "idle"
  /\ now + skew <= MaxTime
  /\ \E rid \in Rids \ DOMAIN requests :
       LET steps == CwStartSteps(PermissionUsageError(flags))
           request == NewRequest(rid, name, chainArg, accessKey, now, now + skew)
           url == ApplySessionPermissionParams(
                    ApprovalUrl(rid, name, request.publicKeyB64u, request.chain,
                                accessKey, CallbackUrl(BoundPort(steps, port))),
                    flags)
           begun == [cw EXCEPT !.name = name, !.rid = rid, !.steps = steps,
                               !.timeoutArg = timeoutArg,
                               !.timeoutSec = TimeoutSec(timeoutArg),
                               !.listening = Did(steps, "listen"),
                               !.port = IF Did(steps, "listen") THEN port ELSE 0]
       IN /\ requests' = IF Did(steps, "saveWalletRequest")
                         THEN Save(requests, rid, request) ELSE requests
          /\ IF Did(steps, "throw")
             THEN /\ cw' = [begun EXCEPT !.pc = "exited"]
                  /\ last' = [Outcome("create-and-wait", name, rid,
                                [err |-> UsageMessage, opened |-> FALSE], Garbage)
                              EXCEPT !.steps = steps]
             ELSE /\ cw' = [begun EXCEPT !.pc = "waiting", !.url = url,
                                         !.timer = "armed",
                                         !.due = now + skew + TimeoutSec(timeoutArg)]
                  /\ last' = last
  /\ now' = now + skew
  /\ UNCHANGED <<wallets, tx, consumed, cmds, perm, stage, ui, builder>>

\* a client connects to 127.0.0.1:<port>
Connect ==
  /\ Alive
  /\ cw.listening
  /\ cw.conns < MaxConns
  /\ cw' = [cw EXCEPT !.conns = @ + 1]
  /\ UNCHANGED <<now, requests, wallets, last, tx, consumed, cmds, perm, stage, ui, builder>>

\* the request handler, run to the end of its 'end' (or aborting 'data') event
HandleRequest(req) ==
  /\ Alive
  /\ cw.conns > 0
  /\ LET status == Respond(req)
         answered == [cw EXCEPT !.conns = @ - 1, !.status = status]
     IN cw' =
          IF status = 200
          THEN LET noted == [answered EXCEPT
                               !.ok200 = @ + 1,
                               !.posts = @ + 1,
                               !.first = IF cw.posts = 0 THEN req.ciphertext.box ELSE @,
                               !.latest = req.ciphertext.box]
               IN RaceResolved(ResolveCallback(noted, req.ciphertext.box))
          ELSE answered
  /\ UNCHANGED <<now, requests, wallets, last, tx, consumed, cmds, perm, stage, ui, builder>>

\* setTimeout callback: rejects timeoutPromise; a pending race rejects, the
\* server is closed and the catch block exits the process
TimerFire ==
  /\ Alive
  /\ cw.timer = "armed"
  /\ now >= cw.due
  /\ IF cw.race = "pending"
     THEN /\ cw' = [cw EXCEPT !.timer = "fired", !.race = "rejected",
                              !.listening = FALSE, !.conns = 0, !.pc = "exited"]
          /\ last' = [Outcome("create-and-wait", cw.name, cw.rid,
                        [err |-> "Timed out waiting for callback", opened |-> FALSE],
                        Garbage)
                      EXCEPT !.secs = cw.timeoutSec]
     ELSE /\ cw' = [cw EXCEPT !.timer = "fired"]
          /\ last' = last
  /\ UNCHANGED <<now, requests, wallets, tx, consumed, cmds, perm, stage, ui, builder>>

\* decryptAndSaveSession(name, ciphertext, rid) after the wait; a throw ends
\* the process with exit code 1
CwIngest ==
  /\ cw.pc = "ingest"
  /\ LET res == DecryptAndSaveSession(cw.name, cw.value, cw.rid, requests, wallets, now)
     IN /\ wallets' = res.wallets
        /\ last' = Outcome("create-and-wait", cw.name, cw.rid, res, cw.value)
        /\ consumed' = IF res.err = "ok" THEN consumed \cup {cw.rid} ELSE consumed
        /\ cw' = IF res.err = "ok"
                 THEN [cw EXCEPT !.pc = "done", !.ingests = @ + 1]
                 ELSE [cw EXCEPT !.pc = "exited", !.ingests = @ + 1, !.conns = 0]
  /\ UNCHANGED <<now, requests, tx, cmds, perm, stage, ui, builder>>

\* the clock advances; a due timer of a live process fires first
Tick ==
  /\ now < MaxTime
  /\ ~(Alive /\ cw.timer = "armed" /\ now >= cw.due)
  /\ now' = now + 1
  /\ UNCHANGED <<requests, wallets, last, cw, tx, consumed, cmds, perm, stage, ui, builder>>

(***************************************************************************)
(* Spec: the handshake.                                                    *)
(***************************************************************************)
\* ciphertexts the approval surface (or anyone holding the URL) can send
SomeCiphertexts ==
  {Seal(GoodPayload(k, "main", "0xA1", 137), PublicKey(k)) : k \in Rids} \cup {Garbage}

Request(m, u, sz, ps, f) ==
  [method |-> m, url |-> u, size |-> sz, parses |-> ps, ciphertext |-> f]

Requests ==
  {Request("POST", u, 1024, TRUE, Field("string", "ct", c)) :
     u \in {"/callback", "/callback-x"}, c \in SomeCiphertexts}
  \cup
  {Request("POST", "/callback", sz, TRUE, Field("string", "ct", c)) :
     sz \in {65536, 65537}, c \in SomeCiphertexts}
  \cup
  {Request(m, u, 1024, TRUE, Field("string", "ct", Garbage)) :
     m \in {"OPTIONS", "GET", "POST"}, u \in {"/callback", "/"}}
  \cup
  {Request("POST", "/callback", 71680, TRUE, Field("string", "ct", Garbage)),
   Request("POST", "/callback", 1024, FALSE, Field("undefined", "", Garbage)),
   Request("POST", "/callback", 1024, TRUE, Field("undefined", "", Garbage)),
   Request("POST", "/callback", 1024, TRUE, Field("string", "", Garbage)),
   Request("POST", "/callback", 1024, TRUE,
           [Field("number", "", Garbage) EXCEPT !.n = 5])}

Init ==
  /\ now = 0
  /\ requests = Empty
  /\ wallets = Empty
  /\ last = NoLast
  /\ cw = CwIdle
  /\ tx = TxIdle
  /\ consumed = {}
  /\ cmds = 0
  /\ perm = PermIdle
  /\ ui = UiIdle
  /\ builder = BuilderIdle
  /\ stage = StageIdle

Next ==
  \/ Tick
  \/ \E flags \in FlagSets : WalletCreate("main", "polygon", Undef, flags, 0)
  \/ \E ct \in SomeCiphertexts, ridArg \in 0..MaxRid :
       WalletStartSession("main", ct, ridArg)
  \/ WalletRemove("main")
  \/ \E timeoutArg \in {Str("0"), Str("1")}, flags \in FlagSets :
       CwStart("main", "polygon", Undef, timeoutArg, flags, 0, 4001)
  \/ Connect
  \/ \E req \in Requests : HandleRequest(req)
  \/ TimerFire
  \/ CwIngest

Spec == Init /\ [][Next]_vars

(***************************************************************************)
(* SpecWait: one walletCreateAndWait invocation on its own.                 *)
(***************************************************************************)
NextWait ==
  \/ Tick
  \/ \E timeoutArg \in TimeoutArgs, flags \in FlagSets, skew \in Skews, port \in Ports :
       CwStart("main", "polygon", Undef, timeoutArg, flags, skew, port)
  \/ Connect
  \/ \E req \in Requests : HandleRequest(req)
  \/ TimerFire
  \/ CwIngest

SpecWait == Init /\ [][NextWait]_vars

\* the two create commands alone, with the permission flags
CreateFlagSets ==
  {NoFlags,
   [NoFlags EXCEPT !.usdcTo = Str("0xR")],
   [NoFlags EXCEPT !.usdcTo = Str("0xR"), !.usdcAmount = Str("5"),
                   !.polLimit = Str("2"), !.usdtLimit = Str("7"),
                   !.tokenLimit = <<" USDC:50", "WETH:1">>,
                   !.contract = <<" 0xC1 ", "0x8004BAa1">>]}

NextCreate ==
  \/ \E accessKey \in AccessKeys, flags \in CreateFlagSets :
       WalletCreate("main", "polygon", accessKey, flags, 0)
  \/ \E accessKey \in AccessKeys, flags \in CreateFlagSets, port \in Ports :
       CwStart("main", "polygon", accessKey, Undef, flags, 0, port)

SpecCreate == Init /\ [][NextCreate]_vars

(***************************************************************************)
(* Properties of the handshake.                                            *)
(***************************************************************************)
TimedOut == "Timed out waiting for callback"

\* C1: the wait of walletCreateAndWait settles once: with the ciphertext of
\* the first well-formed POST handled while the race was pending, or with
\* the timeout error, never both; POSTs handled after settlement change
\* neither the outcome nor the ciphertext that is ingested, and
\* decryptAndSaveSession runs at most once per invocation.
C1_SettlesOnce ==
  /\ cw.promise = "resolved" => cw.posts >= 1 /\ cw.value = cw.first
  /\ cw.race = "resolved" => /\ cw.promise = "resolved"
                             /\ cw.pc \in {"ingest", "done", "exited"}
                             /\ ~(last.cmd = "create-and-wait" /\ last.err = TimedOut)
  /\ cw.race = "rejected" => /\ cw.promise = "pending"
                             /\ cw.posts = 0
                             /\ cw.ingests = 0
                             /\ cw.pc = "exited"
                             /\ cw.timer = "fired"
  /\ cw.race = "pending" => cw.ingests = 0 /\ cw.posts = 0
  /\ cw.ingests <= 1
  /\ cw.ingests = 1 /\ last.cmd = "create-and-wait" => last.ct = cw.first

\* a second well-formed POST with another ciphertext was answered after the
\* wait had settled, and the first one's ciphertext was ingested
C1_Witness ==
  /\ cw.posts = 2
  /\ cw.latest # cw.first
  /\ cw.value = cw.first
  /\ cw.ingests = 1
  /\ cw.pc = "done"
  /\ last.cmd = "create-and-wait"
  /\ last.err = "ok"

\* C2: once an ingestion against request R has succeeded, every later
\* attempt against R (start-session or callback) is rejected and writes no
\* WalletSession; R's record stays on disk.
C2_ConsumedOnce ==
  LastIngest /\ last.rid \in last.used =>
    /\ last.err # "ok"
    /\ wallets = last.before
    /\ Has(requests, last.rid)

(***************************************************************************)
(* execute: syncStateAndGetStorage and runDappClientTx, and the commands   *)
(* that call it.  The clock counts seconds.                                *)
(***************************************************************************)
DateNow(t) == t * 1000

\* Number(x); NaN is finite |-> FALSE
ToNumber(v) ==
  CASE v.t \in {"number", "bigint"} -> [finite |-> TRUE, n |-> v.n]
    [] v.t = "string" /\ v.s = "" -> [finite |-> TRUE, n |-> 0]
    [] v.t = "null" -> [finite |-> TRUE, n |-> 0]
    [] OTHER -> [finite |-> FALSE, n |-> 0]

DeadlinePassed_Strict(deadline, t) ==
  /\ Truthy(deadline)
  /\ LET deadlineSec == ToNumber(deadline)
         nowSec == DateNow(t) \div 1000
     IN deadlineSec.finite /\ deadlineSec.n < nowSec

\* if (deadline) { ... Number.isFinite(deadlineSec) && deadlineSec <= nowSec }
DeadlinePassed(deadline, t) ==
  /\ Truthy(deadline)
  /\ LET deadlineSec == ToNumber(deadline)
         nowSec == DateNow(t) \div 1000
     IN deadlineSec.finite /\ deadlineSec.n <= nowSec

ExpiredSession == "Explicit session has expired. Re-link wallet to mint a fresh session."

\* process.env and the key file, as far as execute reads them
Envs ==
  [origin : BOOLEAN, accessKey : BOOLEAN, passphrase : BOOLEAN, indexerKey : BOOLEAN]

\* the verdict of syncStateAndGetStorage
SyncStateAndGetStorage(walletName, wals, env, t) ==
  IF ~Has(wals, walletName) THEN "Wallet not found"
  ELSE
    LET session == wals[walletName]
        explicitSession == JSONParse(session.explicitSession)
    IN IF ~Truthy(explicitSession.pk)
       THEN "Stored explicit session is missing pk; re-link wallet"
       ELSE IF DeadlinePassed(explicitSession.config.deadline, t) THEN ExpiredSession
       ELSE IF ~env.passphrase THEN "Missing ~/.polygon-agent/.encryption-key"
       ELSE IF ~env.origin THEN "Missing SEQUENCE_DAPP_ORIGIN environment variable"
       ELSE IF ~Truthy(session.projectAccessKey) /\ ~env.accessKey
       THEN "Missing SEQUENCE_PROJECT_ACCESS_KEY"
       ELSE "ok"

\* syncStateAndGetStorage and client.initialize of two invocations on the
\* state file of wallet main, one step per awaited call.
\*   pc  idle -> reset -> save -> persist -> init -> ready | failed
Seen(i) == IF stage.rereads THEN stage.file ELSE stage.inv[i].mem

Wrote(i, pc, explicitSessions) ==
  [stage EXCEPT !.file = explicitSessions,
                !.inv[i].mem = explicitSessions,
                !.inv[i].pc = pc]

\* loadWalletSession and the checks up to getPassphrase
StageLoad(i, env) ==
  /\ stage.inv[i].pc = "idle"
  /\ stage' =
       IF SyncStateAndGetStorage("main", wallets, env, now) # "ok"
       THEN [stage EXCEPT !.inv[i].pc = "failed"]
       ELSE [stage EXCEPT !.inv[i].pc = "reset",
                          !.inv[i].pk = JSONParse(wallets["main"].explicitSession).pk]
  /\ UNCHANGED <<now, requests, wallets, last, cw, tx, consumed, cmds, perm, ui, builder>>

\* stateManager.update: state.storage.explicitSessions = []
StageReset(i) ==
  /\ stage.inv[i].pc = "reset"
  /\ stage' = Wrote(i, "save", <<>>)
  /\ UNCHANGED <<now, requests, wallets, last, cw, tx, consumed, cmds, perm, ui, builder>>

\* storage.saveExplicitSession({pk, walletAddress, chainId, ...})
StageSaveExplicit(i) ==
  /\ stage.inv[i].pc = "save"
  /\ stage' = Wrote(i, "persist", Append(Seen(i), [pk |-> stage.inv[i].pk, by |-> i]))
  /\ UNCHANGED <<now, requests, wallets, last, cw, tx, consumed, cmds, perm, ui, builder>>

\* stateManager.update (connected identity), saveImplicitSession and the
\* three pending-redirect writes: the state is written back as it is seen
StagePersist(i) ==
  /\ stage.inv[i].pc = "persist"
  /\ stage' = Wrote(i, "init", Seen(i))
  /\ UNCHANGED <<now, requests, wallets, last, cw, tx, consumed, cmds, perm, ui, builder>>

\* new DappClient(... sequenceStorage: storage ...), client.initialize()
StageInitialize(i) ==
  /\ stage.inv[i].pc = "init"
  /\ stage' = [stage EXCEPT !.inv[i].pc = "ready", !.inv[i].client = Seen(i)]
  /\ UNCHANGED <<now, requests, wallets, last, cw, tx, consumed, cmds, perm, ui, builder>>

\* what each command hands to runDappClientTx; swap returns its own
\* descriptor without calling it when --broadcast is absent
CommandCall_SwapAlways(cmd, flag) ==
  CASE cmd \in {"send-native", "send-token"} ->
         [executes |-> TRUE, broadcast |-> flag, preferNativeFee |-> TRUE]
    [] cmd = "swap" ->
         [executes |-> TRUE, broadcast |-> TRUE, preferNativeFee |-> FALSE]
    [] OTHER ->
         [executes |-> TRUE, broadcast |-> flag, preferNativeFee |-> FALSE]

CommandCall(cmd, flag) ==
  CASE cmd \in {"send-native", "send-token"} ->
         [executes |-> TRUE, broadcast |-> flag, preferNativeFee |-> TRUE]
    [] cmd = "swap" ->
         [executes |-> flag, broadcast |-> TRUE, preferNativeFee |-> FALSE]
    [] OTHER ->
         [executes |-> TRUE, broadcast |-> flag, preferNativeFee |-> FALSE]

Commands == {"send-native", "send-token", "swap", "register", "give-feedback"}

\* where runDappClientTx goes after client.initialize()
AfterInitialize_OptionsFirst(broadcast, preferNativeFee) ==
  IF ~broadcast THEN "dryRun" ELSE "tier1"

AfterInitialize(broadcast, preferNativeFee) ==
  IF ~broadcast THEN "dryRun"
  ELSE IF preferNativeFee THEN "tier1"
  ELSE "tier2"

\* seq.find(...): the element at the least index of I, the indices that
\* satisfy the test; none when there is no such index
Find(seq, I, none) ==
  IF I = {} THEN none ELSE seq[CHOOSE i \in I : \A j \in I : i <= j]

FirstOr(seq, none) == IF Len(seq) = 0 THEN none ELSE seq[1]

\* (feeOptions || []).find(o => !o?.token?.contractAddress) || feeOptions?.[0]
SelectPreferred(options) ==
  LET native == Find(options, {i \in DOMAIN options : options[i].contractAddress = ""}, NoFee)
  IN OrElse(native, FirstOr(options, NoFee))

USDC_POLYGON == "0x3c49"

Token(addr, symbol) == [t |-> "object", contractAddress |-> addr, symbol |-> symbol]
NoToken == [t |-> "null", contractAddress |-> "", symbol |-> ""]

\* the ERC-20 picked from the fee-token list: one the wallet holds (when the
\* indexer answered), else USDC by address, by symbol, else any ERC-20
PickToken(tokens, indexer) ==
  IF Len(tokens) = 0 THEN NoToken
  ELSE
    LET D == DOMAIN tokens
        Held == {i \in D : /\ tokens[i].contractAddress # ""
                           /\ ToLowerCase(tokens[i].contractAddress) \in indexer.held}
        IsUsdc == {i \in D : ToLowerCase(tokens[i].contractAddress) = USDC_POLYGON}
        NamedUsdc == {i \in D : tokens[i].contractAddress # "" /\ tokens[i].symbol = "USDC"}
        IsErc20 == {i \in D : tokens[i].contractAddress # ""}
        held == IF indexer.thrown THEN NoToken ELSE Find(tokens, Held, NoToken)
    IN IF held.t = "object" THEN held
       ELSE Find(tokens, IF IsUsdc # {} THEN IsUsdc
                         ELSE IF NamedUsdc # {} THEN NamedUsdc
                         ELSE IsErc20, NoToken)

\* the fee option built from getFeeTokens' answer, or none
SelectFromTokens(feeTokens, indexer) ==
  LET tokens == IF feeTokens.isArray THEN feeTokens.tokens ELSE <<>>
      erc20Token == PickToken(tokens, indexer)
  IN IF Truthy(feeTokens.paymentAddress) /\ erc20Token.t = "object"
     THEN FeeOption(erc20Token.contractAddress, feeTokens.paymentAddress.s, "getFeeTokens")
     ELSE NoFee

\* one wallet-client call: whether it threw, the fee option held when it was
\* made (the one passed, for sendTransaction), the fee options it answered
Call(fn, thrown, feeOpt, options) ==
  [fn |-> fn, thrown |-> thrown, feeOpt |-> feeOpt, options |-> options]

(***************************************************************************)
(* What the wallet client, the relayer and the indexer can answer.         *)
(***************************************************************************)
OptNative == FeeOption("", "0xRelay", "getFeeOptions")
OptErc20 == FeeOption("0x3c49", "0xRelay", "getFeeOptions")

\* a missing list (undefined) behaves as the empty one: (feeOptions || []),
\* feeOptions?.[0]
FeeOptionsAnswers ==
  {[thrown |-> TRUE, options |-> <<>>]}
  \cup {[thrown |-> FALSE, options |-> o] :
          o \in {<<>>, <<OptNative>>, <<OptErc20>>, <<OptErc20, OptNative>>}}

TokenLists ==
  {<<>>,
   <<Token("", "POL")>>,
   <<Token("0xdai", "DAI"), Token("0x3C49", "USDC")>>,
   <<Token("0xdai", "DAI"), Token("0x2791", "USDC")>>}

FeeTokensAnswers ==
  {NoFeeTokens,
   [thrown |-> FALSE, paymentAddress |-> Str("0xPay"), isArray |-> FALSE, tokens |-> <<>>]}
  \cup {[thrown |-> FALSE, paymentAddress |-> pa, isArray |-> TRUE, tokens |-> ts] :
          pa \in {Undef, Str("0xPay")}, ts \in TokenLists}

\* line 295 reads session.projectAccessKey where no session is in scope: a
\* ReferenceError unless SEQUENCE_INDEXER_ACCESS_KEY is set
IndexerAnswers(indexerKey) ==
  IF ~indexerKey THEN {NoBalances}
  ELSE {NoBalances}
       \cup {[thrown |-> FALSE, held |-> h] : h \in {{}, {"0xdai"}, {"0x3c49", "0xdai"}}}

\* what the try block around the balance query obtains, given what the
\* balance service would answer
BalanceQuery(indexerKey, service) == IF ~indexerKey THEN NoBalances ELSE service

Hashes == {"0xh1", "0xh2"}

SendOutcome_Retry(t, accepted, hash) ==
  LET called == [t EXCEPT
                   !.calls = Append(@, Call("sendTransaction", ~accepted, t.feeOpt, <<>>))]
  IN IF accepted
     THEN [called EXCEPT !.pc = "done", !.result = "txHash",
                         !.sent = Append(@, hash), !.txHash = hash]
     ELSE [called EXCEPT !.pc = "tier3"]

\* const txHash = await client.sendTransaction(...); return { ..., txHash }
SendOutcome(t, accepted, hash) ==
  LET called == [t EXCEPT
                   !.calls = Append(@, Call("sendTransaction", ~accepted, t.feeOpt, <<>>))]
  IN IF accepted
     THEN [called EXCEPT !.pc = "done", !.result = "txHash",
                         !.sent = Append(@, hash), !.txHash = hash]
     ELSE [called EXCEPT !.pc = "failed", !.err = "sendTransaction failed"]

(***************************************************************************)
(* The steps of one command.                                               *)
(*   pc  idle -> init -> tier1 | tier2 -> tier3 -> send -> done | failed   *)
(***************************************************************************)
\* the command up to the end of syncStateAndGetStorage; ready is FALSE when
\* the command fails on its own arguments or quote first
TxStart(cmd, flag, ready, env) ==
  /\ tx.pc = "idle"
  /\ LET call == CommandCall(cmd, flag)
         begun == [tx EXCEPT !.cmd = cmd, !.flag = flag, !.before = wallets, !.at = now]
         verdict == SyncStateAndGetStorage("main", wallets, env, now)
     IN tx' =
          IF ~ready
          THEN [begun EXCEPT !.pc = "failed", !.err = "command failed before execute"]
          ELSE IF ~call.executes
          THEN [begun EXCEPT !.pc = "done", !.result = "intent"]
          ELSE IF verdict # "ok"
          THEN [begun EXCEPT !.pc = "failed", !.executed = TRUE, !.err = verdict,
                             !.broadcast = call.broadcast,
                             !.preferNativeFee = call.preferNativeFee]
          ELSE [begun EXCEPT !.pc = "init", !.executed = TRUE,
                             !.broadcast = call.broadcast,
                             !.preferNativeFee = call.preferNativeFee,
                             !.indexerKey = env.indexerKey]
  /\ UNCHANGED <<now, requests, wallets, last, cw, consumed, cmds, perm, stage, ui, builder>>

\* new DappClient(...), client.initialize(), and the dry-run return
TxInitialize(initialized) ==
  /\ tx.pc = "init"
  /\ LET built == [tx EXCEPT !.clientBuilt = TRUE,
                             !.calls = Append(@, Call("initialize", ~initialized, NoFee, <<>>))]
         next == AfterInitialize(tx.broadcast, tx.preferNativeFee)
     IN tx' =
          IF ~initialized
          THEN [built EXCEPT !.pc = "failed", !.err = "Client not initialized"]
          ELSE IF next = "dryRun"
          THEN [built EXCEPT !.pc = "done", !.result = "dryRun"]
          ELSE [built EXCEPT !.pc = next]
  /\ UNCHANGED <<now, requests, wallets, last, cw, consumed, cmds, perm, stage, ui, builder>>

\* if (preferNativeFee) try getFeeOptions
TxFeeOptions(answer) ==
  /\ tx.pc = "tier1"
  /\ LET feeOpt == IF answer.thrown THEN NoFee ELSE SelectPreferred(answer.options)
     IN tx' = [tx EXCEPT
                 !.calls = Append(@, Call("getFeeOptions", answer.thrown, tx.feeOpt, answer.options)),
                 !.feeOpt = feeOpt,
                 !.pc = IF Truthy(feeOpt) THEN "send" ELSE "tier2"]
  /\ UNCHANGED <<now, requests, wallets, last, cw, consumed, cmds, perm, stage, ui, builder>>

\* if (!feeOpt) try getFeeTokens, with the indexer's balances
TxFeeTokens(answer, service) ==
  /\ tx.pc = "tier2"
  /\ LET indexer == BalanceQuery(tx.indexerKey, service)
         feeOpt == IF answer.thrown THEN NoFee ELSE SelectFromTokens(answer, indexer)
     IN tx' = [tx EXCEPT
                 !.calls = Append(@, Call("getFeeTokens", answer.thrown, tx.feeOpt, <<>>)),
                 !.feeTokens = answer,
                 !.balances = service,
                 !.feeOpt = feeOpt,
                 !.pc = IF Truthy(feeOpt) THEN "send" ELSE "tier3"]
  /\ UNCHANGED <<now, requests, wallets, last, cw, consumed, cmds, perm, stage, ui, builder>>

\* if (!feeOpt) last resort: getFeeOptions, feeOpt = feeOptions?.[0]
TxLastResort(answer) ==
  /\ tx.pc = "tier3"
  /\ LET called == [tx EXCEPT
                      !.calls = Append(@, Call("getFeeOptions", answer.thrown, tx.feeOpt, answer.options))]
     IN tx' =
          IF answer.thrown
          THEN [called EXCEPT !.pc = "failed", !.err = "Unable to determine fee option"]
          ELSE [called EXCEPT !.feeOpt = FirstOr(answer.options, NoFee), !.pc = "send"]
  /\ UNCHANGED <<now, requests, wallets, last, cw, consumed, cmds, perm, stage, ui, builder>>

\* client.sendTransaction(chainId, transactions, feeOpt)
TxSend(accepted, hash) ==
  /\ tx.pc = "send"
  /\ tx' = SendOutcome(tx, accepted, hash)
  /\ UNCHANGED <<now, requests, wallets, last, cw, consumed, cmds, perm, stage, ui, builder>>

(***************************************************************************)
(* SpecTx: one command, run against every wallet store an ingestion can    *)
(* have left.                                                              *)
(***************************************************************************)
DeadlineVals == {Undef, BigInt(0), BigInt(1), BigInt(2), BigInt(MaxTime + 1), Num(1), Str("soon")}

InitTx ==
  /\ now \in 0..MaxTime
  /\ last = NoLast
  /\ cw = CwIdle
  /\ tx = TxIdle
  /\ cmds = 0
  /\ perm = PermIdle
  /\ ui = UiIdle
  /\ builder = BuilderIdle
  /\ stage = StageIdle
  /\ \E ak \in AccessKeys :
       requests = Save(Empty, 1, NewRequest(1, "main", "polygon", ak, 0, 0))
  /\ \/ wallets = Empty /\ consumed = {}
     \/ /\ consumed = {1}
        /\ \E deadline \in DeadlineVals :
             wallets =
               DecryptAndSaveSession("main",
                 Seal(Payload(TRUE, 1, "main", Str("0xA1"), Num(137),
                              ExplicitObj(Str("pkE"), deadline),
                              ImplicitObj(Str("pkI"), Str("att"), Str("sig"))),
                      PublicKey(1)),
                 1, requests, Empty, 0).wallets

(***************************************************************************)
(* SpecDetect: start-session without --rid over a requests directory that  *)
(* readdirSync lists in any order.                                         *)
(***************************************************************************)
DetectRids == 1..(MaxRid + 1)

\* the request files in an order the file system may give
IsListing(files, reqs) ==
  /\ Len(files) = Cardinality(DOMAIN reqs)
  /\ {files[i] : i \in 1..Len(files)} = DOMAIN reqs

Listings ==
  {f \in UNION {[1..n -> DetectRids] : n \in 0..(MaxRid + 1)} :
     \A i, j \in 1..Len(f) : i # j => f[i] # f[j]}

AutoDetectIn_Last(files, reqs, name) ==
  LET hits == {i \in 1..Len(files) : reqs[files[i]].walletName = name}
  IN IF hits = {} THEN 0
     ELSE files[CHOOSE i \in hits : \A j \in hits : i >= j]

\* for (const file of requestFiles) { ... if (request && request.walletName
\* === name) { rid = requestRid; break } }; 0 when the loop leaves rid unset
AutoDetectIn(files, reqs, name) ==
  LET hits == {i \in 1..Len(files) : reqs[files[i]].walletName = name}
  IN IF hits = {} THEN 0
     ELSE files[CHOOSE i \in hits : \A j \in hits : i <= j]

\* walletStartSession with no --rid, readdirSync answering files
WalletStartSessionAuto(files, name, ct) ==
  LET rid == AutoDetectIn(files, requests, name)
      res == IF rid = 0
             THEN [err |-> "No matching request found", opened |-> FALSE,
                   wallets |-> wallets]
             ELSE DecryptAndSaveSession(name, ct, rid, requests, wallets, now)
  IN /\ cmds < MaxCmds
     /\ IsListing(files, requests)
     /\ wallets' = res.wallets
     /\ last' = [Outcome("start-session", name, rid, res, ct)
                   EXCEPT !.auto = TRUE, !.files = files]
     /\ consumed' = IF res.err = "ok" THEN consumed \cup {rid} ELSE consumed
     /\ cmds' = cmds + 1
     /\ UNCHANGED <<now, requests, cw, tx, perm, stage, ui, builder>>

DetectCiphertexts ==
  {Seal(GoodPayload(k, "main", "0xA1", 137), PublicKey(k)) : k \in DetectRids}
  \cup {Garbage}

\* every requests directory of up to MaxRid + 1 pending requests, each for
\* either wallet name, created at 0
InitDetect ==
  /\ now \in 0..MaxTime
  /\ last = NoLast
  /\ cw = CwIdle
  /\ tx = TxIdle
  /\ cmds = 0
  /\ perm = PermIdle
  /\ ui = UiIdle
  /\ builder = BuilderIdle
  /\ stage = StageIdle
  /\ wallets = Empty
  /\ consumed = {}
  /\ \E present \in SUBSET DetectRids, owner \in [DetectRids -> Names] :
       requests = [k \in present |-> NewRequest(k, owner[k], "polygon", Undef, 0, 0)]

NextDetect ==
  /\ last.cmd = "none"
  /\ \E files \in Listings, name \in Names, ct \in DetectCiphertexts :
       WalletStartSessionAuto(files, name, ct)

SpecDetect == InitDetect /\ [][NextDetect]_vars

(***************************************************************************)
(* SpecDeadline: a session approved in the connector UI, linked at once,   *)
(* and executes at later times.  The clock counts seconds.                 *)
(***************************************************************************)
SessionTTL == 86400

\* deadline: BigInt(Math.floor(Date.now() / 1000) + 60 * 60 * 24)
ConnectorDeadline(t) == BigInt((DateNow(t) \div 1000) + SessionTTL)

\* the payload the connector UI seals after dappClient.connect at time t
ConnectorPayload(rid, name, t) ==
  Payload(TRUE, rid, name, Str("0xA1"), Num(137),
          ExplicitObj(Str("pkE"), ConnectorDeadline(t)),
          ImplicitObj(Str("pkI"), Str("att"), Str("sig")))

\* the clock moves on by a second, by a second less than a day, by a day
Jumps == {1, SessionTTL - 1, SessionTTL}

\* the seconds looked at: the first ones and those around the day's end
InWindow(t) ==
  \/ t <= MaxTime
  \/ t >= SessionTTL - 1 /\ t <= SessionTTL + MaxTime

Later(d) ==
  /\ InWindow(now + d)
  /\ now' = now + d
  /\ UNCHANGED <<requests, wallets, last, cw, tx, consumed, cmds, perm, stage, ui, builder>>

InitDeadline ==
  /\ now \in 0..1
  /\ last = NoLast
  /\ cw = CwIdle
  /\ tx = TxIdle
  /\ cmds = 0
  /\ perm = PermIdle
  /\ ui = UiIdle
  /\ builder = BuilderIdle
  /\ stage = StageIdle
  /\ wallets = Empty
  /\ consumed = {}
  /\ \E ak \in AccessKeys :
       requests = Save(Empty, 1, NewRequest(1, "main", "polygon", ak, now, now))

NextDeadline ==
  \/ \E d \in Jumps : Later(d)
  \/ WalletStartSession("main", Seal(ConnectorPayload(1, "main", now), PublicKey(1)), 1)
  \/ \E cmd \in Commands, flag \in BOOLEAN, env \in Envs : TxStart(cmd, flag, TRUE, env)

SpecDeadline == InitDeadline /\ [][NextDeadline]_vars

\* two executes on a linked wallet main, with either StateManager
InitStage ==
  /\ now \in 0..MaxTime
  /\ last = NoLast
  /\ cw = CwIdle
  /\ tx = TxIdle
  /\ cmds = 0
  /\ perm = PermIdle
  /\ ui = UiIdle
  /\ builder = BuilderIdle
  /\ stage \in {[StageIdle EXCEPT !.rereads = b] : b \in BOOLEAN}
  /\ consumed = {1}
  /\ \E ak \in AccessKeys :
       requests = Save(Empty, 1, NewRequest(1, "main", "polygon", ak, 0, 0))
  /\ \E deadline \in DeadlineVals :
       wallets =
         DecryptAndSaveSession("main",
           Seal(Payload(TRUE, 1, "main", Str("0xA1"), Num(137),
                        ExplicitObj(Str("pkE"), deadline),
                        ImplicitObj(Str("pkI"), Str("att"), Str("sig"))),
                PublicKey(1)),
           1, requests, Empty, 0).wallets

NextStage ==
  \/ \E i \in Invocations, env \in Envs : StageLoad(i, env)
  \/ \E i \in Invocations : StageReset(i)
  \/ \E i \in Invocations : StageSaveExplicit(i)
  \/ \E i \in Invocations : StagePersist(i)
  \/ \E i \in Invocations : StageInitialize(i)

SpecStage == InitStage /\ [][NextStage]_vars

NextTx ==
  \/ \E cmd \in Commands, flag \in BOOLEAN, ready \in BOOLEAN, env \in Envs :
       TxStart(cmd, flag, ready, env)
  \/ \E initialized \in BOOLEAN : TxInitialize(initialized)
  \/ \E answer \in FeeOptionsAnswers : TxFeeOptions(answer)
  \/ \E answer \in FeeTokensAnswers, service \in IndexerAnswers(TRUE) :
       TxFeeTokens(answer, service)
  \/ \E answer \in FeeOptionsAnswers : TxLastResort(answer)
  \/ \E accepted \in BOOLEAN, hash \in Hashes : TxSend(accepted, hash)

SpecTx == InitTx /\ [][NextTx]_vars

(***************************************************************************)
(* Properties of execute.                                                  *)
(***************************************************************************)
Called(fn) == \E i \in DOMAIN tx.calls : tx.calls[i].fn = fn

FeeCalls == {i \in DOMAIN tx.calls : tx.calls[i].fn \in {"getFeeOptions", "getFeeTokens"}}

\* the deadline of the session the command found in the store
FoundDeadline == JSONParse(tx.before["main"].explicitSession).config.deadline

\* C7: a stored session whose deadline is at or before the current time
\* makes execute fail with the expired-session error before the client is
\* constructed and before any fee or send call, with or without
\* --broadcast; the stored session is left as it was.
C7_ExpiredFails ==
  /\ tx.executed
  /\ Has(tx.before, "main")
  /\ FoundDeadline.t \in {"number", "bigint"}
  /\ FoundDeadline.n <= tx.at
  => /\ tx.pc = "failed"
     /\ tx.err = ExpiredSession
     /\ ~tx.clientBuilt
     /\ tx.calls = <<>>
     /\ wallets = tx.before

\* C8: without --broadcast no command reaches getFeeOptions, getFeeTokens or
\* sendTransaction, and execute called with broadcast false returns only the
\* dry-run descriptor.
C8_DryRunSendsNothing ==
  /\ ~tx.flag =>
       /\ ~Called("getFeeOptions") /\ ~Called("getFeeTokens") /\ ~Called("sendTransaction")
       /\ tx.result \in {"none", "dryRun", "intent"}
  /\ tx.executed /\ ~tx.broadcast =>
       /\ ~Called("getFeeOptions") /\ ~Called("getFeeTokens") /\ ~Called("sendTransaction")
       /\ tx.pc = "done" => tx.result = "dryRun"

\* a command without --broadcast ran execute to its dry-run return
C8_Witness ==
  /\ tx.pc = "done"
  /\ tx.executed
  /\ ~tx.flag
  /\ ~tx.broadcast
  /\ tx.clientBuilt
  /\ tx.result = "dryRun"

\* C9: sendTransaction is never invoked with an undefined fee option: when
\* no tier yields a usable option execute fails instead.
C9_NoUndefinedFee ==
  \A i \in DOMAIN tx.calls :
    tx.calls[i].fn = "sendTransaction" => Truthy(tx.calls[i].feeOpt)

HasNative(options) == \E k \in DOMAIN options : options[k].contractAddress = ""

\* C10: with preferNativeFee the first fee call is getFeeOptions, and a native
\* option in its answer is selected without any getFeeTokens call; without
\* it getFeeTokens comes before any getFeeOptions; getFeeTokens and the
\* last-resort getFeeOptions are called only while no option is selected.
C10_TierOrder ==
  /\ \A i \in FeeCalls :
       LET first == \A j \in FeeCalls : i <= j
           c == tx.calls[i]
       IN /\ first => c.fn = (IF tx.preferNativeFee THEN "getFeeOptions" ELSE "getFeeTokens")
          /\ first /\ tx.preferNativeFee /\ ~c.thrown /\ HasNative(c.options) =>
               /\ tx.feeOpt.t = "object"
               /\ tx.feeOpt.contractAddress = ""
               /\ ~Called("getFeeTokens")
          /\ ~first => ~Truthy(c.feeOpt)
          /\ ~first /\ c.fn = "getFeeOptions" =>
               \E j \in FeeCalls : j < i /\ tx.calls[j].fn = "getFeeTokens"
  /\ \A i \in DOMAIN tx.calls :
       tx.calls[i].fn = "sendTransaction" => tx.calls[i].feeOpt = tx.feeOpt

\* the native option, listed second, was selected and sent with
C10_Witness ==
  /\ tx.preferNativeFee
  /\ Len(tx.calls) = 3
  /\ tx.calls[2].fn = "getFeeOptions"
  /\ tx.calls[2].options = <<OptErc20, OptNative>>
  /\ tx.calls[3].fn = "sendTransaction"
  /\ tx.calls[3].feeOpt = OptNative

\* positions in the fee-token list of the ERC-20s the wallet holds
HeldListed ==
  {i \in DOMAIN tx.feeTokens.tokens :
     /\ tx.feeTokens.tokens[i].contractAddress # ""
     /\ ToLowerCase(tx.feeTokens.tokens[i].contractAddress) \in tx.balances.held}

\* C11: in the fee-token tier, when the balance query is available and the
\* fee-token list has an ERC-20 the wallet holds, the token selected is one
\* the wallet holds.
C11_HeldPreferred ==
  /\ Called("getFeeTokens")
  /\ ~tx.feeTokens.thrown
  /\ Truthy(tx.feeTokens.paymentAddress)
  /\ ~tx.balances.thrown
  /\ HeldListed # {}
  => /\ Truthy(tx.feeOpt)
     /\ ToLowerCase(tx.feeOpt.contractAddress) \in tx.balances.held

Sends == {i \in DOMAIN tx.calls : tx.calls[i].fn = "sendTransaction"}

\* C12: sendTransaction is called at most once per execute, as the last
\* client call, on the broadcast path and with the fee option that
\* resolution left; execute returns the hash sendTransaction returned, and
\* a sendTransaction that threw is not followed by another attempt.
C12_SingleSend ==
  /\ Cardinality(Sends) <= 1
  /\ \A i \in Sends :
       /\ i = Len(tx.calls)
       /\ tx.broadcast
       /\ tx.calls[i].feeOpt = tx.feeOpt
       /\ tx.pc = (IF tx.calls[i].thrown THEN "failed" ELSE "done")
       /\ ~tx.calls[i].thrown => tx.result = "txHash"
  /\ Len(tx.sent) <= 1
  /\ tx.result = "txHash" =>
       /\ Sends # {}
       /\ Len(tx.sent) = 1
       /\ tx.txHash = tx.sent[1]

\* fee discovery took all three tiers, then one submission whose hash came back
C12_Witness ==
  /\ tx.pc = "done"
  /\ tx.result = "txHash"
  /\ Len(tx.calls) = 5
  /\ tx.calls[2].fn = "getFeeOptions"
  /\ tx.calls[4].fn = "getFeeOptions"
  /\ tx.txHash = "0xh2"
  /\ tx.sent = <<"0xh2">>

(***************************************************************************)
(* Properties of the callback listener and of request creation.            *)
(***************************************************************************)
\* C13: the listener is closed on both outcomes of the wait, before
\* ingestion begins and before the timeout error is reported; no execution
\* of the command ends with the listener still open.
C13_ListenerClosed ==
  cw.pc \in {"ingest", "done", "exited"} => ~cw.listening

\* C14: at most one POST of an invocation is answered with the 200 success
\* page.
C14_OneSuccess == cw.ok200 <= 1

\* a request the listener is to refuse: not a POST, not to /callback, a body
\* that does not parse or has no string ciphertext field
Refused(req) ==
  \/ req.method # "POST"
  \/ req.url # "/callback"
  \/ ~req.parses
  \/ req.ciphertext.t # "string"

\* C15: every request that is not a POST, not to /callback, or whose body
\* cannot be parsed or lacks a string ciphertext field is answered 4xx and
\* leaves the wait unresolved.
C15_RefusedWith4xx ==
  [][\A req \in Requests :
       Refused(req) /\ HandleRequest(req) =>
         /\ cw'.status \in 400..499
         /\ cw'.promise = cw.promise
         /\ cw'.race = cw.race]_vars

\* C16: a POST to /callback with more than 65536 bytes of body is answered
\* 413, its connection is gone and the wait, the listener and the timer are
\* as before, whatever the body holds; a well-formed POST of at most 65536
\* bytes handled while the wait is pending, after a 413 as at any other
\* time, resolves the wait with its ciphertext.
C16_OversizeRejected ==
  [][\A req \in Requests :
       /\ /\ req.method = "POST" /\ req.url = "/callback" /\ req.size > 65536
          /\ HandleRequest(req)
          => /\ cw'.status = 413
             /\ cw'.conns = cw.conns - 1
             /\ cw'.promise = cw.promise
             /\ cw'.race = cw.race
             /\ cw'.value = cw.value
             /\ cw'.pc = cw.pc
             /\ cw'.listening = cw.listening
             /\ cw'.timer = cw.timer
       /\ /\ cw.promise = "pending"
          /\ req.method = "POST" /\ req.url = "/callback" /\ req.size <= 65536
          /\ req.parses /\ req.ciphertext.t = "string" /\ req.ciphertext.s # ""
          /\ HandleRequest(req)
          => /\ cw'.status = 200
             /\ cw'.promise = "resolved"
             /\ cw'.value = req.ciphertext.box
             /\ cw'.pc = "ingest"]_vars

\* an oversized POST has just been answered 413: the wait is pending, the
\* listener open and another connection waits to be handled
C16_Witness ==
  /\ cw.status = 413
  /\ cw.pc = "waiting"
  /\ cw.promise = "pending"
  /\ cw.listening
  /\ cw.conns = 1

\* C17: the wait ends by a well-formed callback or by the timeout and by
\* nothing else; the timeout is --timeout seconds, 300 when not given, and
\* does not fire early; on timeout the command fails with the timed-out
\* message naming those seconds, has written no WalletSession and has left
\* its SessionRequest as it saved it.
C17_TimeoutOnly ==
  /\ cw.pc # "idle" =>
       cw.timeoutSec = (IF cw.timeoutArg = Undef THEN 300 ELSE ParseInt(cw.timeoutArg))
  /\ cw.timer # "unset" => cw.due >= cw.timeoutSec
  /\ cw.pc = "waiting" => cw.race = "pending" /\ cw.timer = "armed" /\ now <= cw.due
  /\ cw.race = "resolved" => cw.posts >= 1
  /\ cw.pc \in {"ingest", "done"} => cw.race = "resolved"
  /\ cw.pc = "exited" =>
       \/ cw.race = "rejected"
       \/ cw.race = "resolved" /\ cw.ingests = 1
       \/ cw.race = "pending" /\ Did(cw.steps, "throw")
  /\ cw.race = "rejected" =>
       /\ cw.timer = "fired"
       /\ cw.posts = 0
       /\ last.cmd = "create-and-wait"
       /\ last.err = TimedOut
       /\ last.secs = cw.timeoutSec
       /\ last.at >= cw.due
       /\ cw.ingests = 0
       /\ wallets = last.before
       /\ Has(requests, cw.rid)
       /\ requests[cw.rid].rid = cw.rid
       /\ requests[cw.rid].walletName = cw.name
       /\ requests[cw.rid].publicKeyB64u = PublicKey(cw.rid)
       /\ requests[cw.rid].privateKeyB64u = SecretKey(cw.rid)

\* a malformed POST was refused, then the one-second wait timed out
C17_Witness ==
  /\ cw.race = "rejected"
  /\ cw.timeoutSec = 1
  /\ cw.status = 400
  /\ last.err = TimedOut
  /\ last.secs = 1

\* C18: when the approval URL is printed the SessionRequest has been saved
\* and the listener is listening, and the URL's callbackUrl is
\* http://localhost:<port>/callback with the port the listener is bound to.
C18_ListenBeforePrint ==
  Did(cw.steps, "print") =>
    /\ Before(cw.steps, "saveWalletRequest", "print")
    /\ Before(cw.steps, "listen", "print")
    /\ Has(requests, cw.rid)
    /\ cw.port \in Ports
    /\ cw.url.rid = cw.rid
    /\ cw.url.callbackUrl = [host |-> "localhost", port |-> cw.port, path |-> "/callback"]

\* the URL was printed and a client has connected to the port it names
C18_Witness ==
  /\ cw.pc = "waiting"
  /\ cw.listening
  /\ cw.port = 4002
  /\ cw.url.callbackUrl.port = 4002
  /\ cw.conns = 1

\* C19: with exactly one of --usdc-to and --usdc-amount, wallet create
\* fails with the usage error, has persisted no SessionRequest and has not
\* bound the listener.
C19_UsageBeforePersist ==
  last.cmd \in {"create", "create-and-wait"} /\ last.err = UsageMessage =>
    /\ ~Did(last.steps, "saveWalletRequest")
    /\ ~Did(last.steps, "listen")
    /\ ~Has(requests, last.rid)

\* C20: every stored request has expiresAt - createdAt = 2 hours, and the
\* public key stored for the request is the pub parameter of the URL.
C20_TwoHours ==
  /\ \A rid \in DOMAIN requests :
       DateParse(requests[rid].expiresAt) - DateParse(requests[rid].createdAt) = 2
  /\ Did(cw.steps, "print") => cw.url.pub = requests[cw.rid].publicKeyB64u
  /\ last.cmd = "create" /\ last.err = "ok" => last.url.pub = requests[last.rid].publicKeyB64u

(***************************************************************************)
(* Claims about what an ingestion leaves in the wallet store.              *)
(***************************************************************************)
\* C26: after a successful ingestion for wallet name N the stored session of
\* N is exactly the record built from the envelope and the request at that
\* time, whatever was stored for N before, and the sessions stored under
\* other names are as they were.
C26_WholeRecordReplaced ==
  last.cmd = "start-session" /\ last.err = "ok" =>
    /\ Has(wallets, last.name)
    /\ wallets[last.name] =
         SessionRecord(LastRequest, NormalizeChain(LastRequest.chain),
                       LastPayload, last.at)
    /\ DOMAIN wallets = DOMAIN last.before \cup {last.name}
    /\ \A n \in DOMAIN last.before \ {last.name} : wallets[n] = last.before[n]

\* main was linked earlier to another address; the ingestion replaced it
C26_Witness ==
  /\ last.cmd = "start-session" /\ last.err = "ok"
  /\ last.name = "main"
  /\ Has(last.before, "main")
  /\ last.before["main"].walletAddress # wallets["main"].walletAddress
  /\ last.before["main"].createdAt # wallets["main"].createdAt

\* C27: under every interleaving of two executes on the same wallet name, the
\* wallet client of each invocation is initialized with exactly the explicit
\* session that this invocation staged: it never finds the staging state
\* emptied, or filled, by the other invocation.
C27_OwnStagedSession ==
  \A i \in Invocations :
    stage.inv[i].pc = "ready" =>
      stage.inv[i].client = <<[pk |-> stage.inv[i].pk, by |-> i]>>

\* the places in the listing of the requests that carry the wallet name
Matches == {i \in 1..Len(last.files) : requests[last.files[i]].walletName = last.name}

\* C29: start-session without --rid uses the first request, in directory
\* listing order, whose walletName equals the name; when no request matches
\* it fails with 'No matching request found' and writes no WalletSession.
C29_FirstMatchInListingOrder ==
  last.cmd = "start-session" /\ last.auto =>
    IF Matches = {}
    THEN last.err = "No matching request found" /\ wallets = last.before
    ELSE \E i \in Matches :
           /\ \A j \in Matches : i <= j
           /\ last.rid = last.files[i]

\* two requests carry the name, the listing gives the higher rid first, and
\* the session was started from that one
C29_Witness ==
  /\ last.cmd = "start-session"
  /\ last.auto
  /\ last.name = "main"
  /\ last.files = <<3, 1, 2>>
  /\ Cardinality(Matches) >= 2
  /\ last.rid = 3
  /\ last.err = "ok"
  /\ Has(wallets, "main")

\* C31: a session written by ingestion is stored under the walletName of the
\* request whose key decrypted the envelope, and the envelope's rid and
\* walletName equal that request's rid and walletName.
C31_StoredUnderRequestName ==
  LastIngest /\ last.err = "ok" =>
    /\ last.name = LastRequest.walletName
    /\ LastPayload.rid = LastRequest.rid
    /\ LastPayload.walletName = LastRequest.walletName

\* C32: when the callback listener has answered a POST with the 200 'Session
\* Approved' page, the invocation ends with a WalletSession stored for the
\* wallet name: no success page for a ciphertext that then fails decryption
\* or validation.
C32_SuccessPageMeansStored ==
  cw.ok200 >= 1 /\ cw.pc \in {"done", "exited"} =>
    /\ last.cmd = "create-and-wait"
    /\ last.err = "ok"
    /\ Has(wallets, cw.name)

\* C34: when walletCreateAndWait has received a well-formed callback and the
\* ingestion has succeeded, no timeout timer remains pending.
C34_NoPendingTimer ==
  cw.pc = "done" /\ last.cmd = "create-and-wait" /\ last.err = "ok" =>
    cw.timer # "armed"

\* the stored request k is for the wallet name, was unexpired when the command
\* ran, its key pair opens the ciphertext, and the envelope inside is valid
Decrypts(k) ==
  /\ requests[k].walletName = last.name
  /\ ~RequestExpired(requests[k], last.at)
  /\ SealedBoxOpen(last.ct, requests[k].publicKeyB64u, requests[k].privateKeyB64u).ok
  /\ ValidatePayload(NormalizeChain(requests[k].chain), last.ct.msg) = "ok"

\* C33: start-session without --rid succeeds whenever some persisted,
\* unexpired request for the wallet name has the key pair that decrypts the
\* ciphertext, whatever other requests exist for the same name.
C33_AutoDetectFindsDecryptingRequest ==
  /\ last.cmd = "start-session"
  /\ last.auto
  /\ \E k \in DOMAIN requests : Decrypts(k)
  => last.err = "ok"

\* C30: each request is served by one delivery mode: the request that
\* walletCreateAndWait created (callback-server mode) is not ingested by
\* wallet start-session.
C30_OneDeliveryMode ==
  last.cmd = "start-session" /\ last.err = "ok" =>
    ~(cw.pc # "idle" /\ last.rid = cw.rid)

\* when the session the command found was approved (and linked)
ApprovedAt == DateParse(tx.before["main"].createdAt)

\* C28: a session approved in the connector UI at time t is stored with
\* deadline t + 24 h; an execute on that wallet at a time before t + 24 h
\* does not fail on the deadline, and an execute at or after t + 24 h fails
\* with the expired-session error.
C28_DayLongSession ==
  tx.executed /\ Has(tx.before, "main") =>
    /\ FoundDeadline = BigInt(ApprovedAt + SessionTTL)
    /\ tx.at < ApprovedAt + SessionTTL => tx.err # ExpiredSession
    /\ tx.at >= ApprovedAt + SessionTTL =>
         tx.pc = "failed" /\ tx.err = ExpiredSession

\* an execute exactly 24 h after the approval has failed as expired
C28_Witness ==
  /\ tx.executed
  /\ Has(tx.before, "main")
  /\ ApprovedAt = 1
  /\ tx.at = ApprovedAt + SessionTTL
  /\ tx.err = ExpiredSession

(***************************************************************************)
(* The commands that only read the wallet store, and SpecFrame: every      *)
(* command that loads, writes or deletes a WalletSession, on one store.    *)
(***************************************************************************)
\* wallet list: listWallets, loadWalletSession of each name
WalletList ==
  /\ cmds < MaxCmds
  /\ last' = Outcome("list", "", 0, [err |-> "ok", opened |-> FALSE], Garbage)
  /\ cmds' = cmds + 1
  /\ UNCHANGED <<now, requests, wallets, cw, tx, consumed, perm, stage, ui, builder>>

\* wallet address: loadWalletSession(name)
WalletAddress(name) ==
  /\ cmds < MaxCmds
  /\ last' = Outcome("address", name, 0,
               [err |-> IF Has(wallets, name) THEN "ok" ELSE "Wallet not found",
                opened |-> FALSE], Garbage)
  /\ cmds' = cmds + 1
  /\ UNCHANGED <<now, requests, wallets, cw, tx, consumed, perm, stage, ui, builder>>

Balances_Cache(name, keyed, answered) ==
  /\ cmds < MaxCmds
  /\ last' = Outcome("balances", name, 0,
               [err |-> IF ~Has(wallets, name) THEN "Wallet not found" ELSE "ok",
                opened |-> FALSE], Garbage)
  /\ wallets' = IF Has(wallets, name)
                THEN Save(wallets, name,
                          [wallets[name] EXCEPT !.projectAccessKey = Str("cached")])
                ELSE wallets
  /\ cmds' = cmds + 1
  /\ UNCHANGED <<now, requests, cw, tx, consumed, perm, stage, ui, builder>>

\* balances: loadWalletSession, the indexer key from the environment or the
\* session, the two indexer queries; keyed: the environment has a key,
\* answered: the indexer answers
Balances(name, keyed, answered) ==
  /\ cmds < MaxCmds
  /\ last' = Outcome("balances", name, 0,
               [err |-> IF ~Has(wallets, name) THEN "Wallet not found"
                        ELSE IF ~keyed /\ ~Truthy(wallets[name].projectAccessKey)
                        THEN "Missing project access key"
                        ELSE IF ~answered THEN "indexer failed"
                        ELSE "ok",
                opened |-> FALSE], Garbage)
  /\ cmds' = cmds + 1
  /\ UNCHANGED <<now, requests, wallets, cw, tx, consumed, perm, stage, ui, builder>>

\* a store with one request for main, linked or not
InitFrame ==
  /\ now = 0
  /\ last = NoLast
  /\ cw = CwIdle
  /\ tx = TxIdle
  /\ cmds = 0
  /\ perm = PermIdle
  /\ ui = UiIdle
  /\ builder = BuilderIdle
  /\ stage = StageIdle
  /\ requests = Save(Empty, 1, NewRequest(1, "main", "polygon", Undef, 0, 0))
  /\ \/ wallets = Empty /\ consumed = {}
     \/ /\ consumed = {1}
        /\ wallets =
             DecryptAndSaveSession("main",
               Seal(Payload(TRUE, 1, "main", Str("0xB2"), Num(137),
                            ExplicitObj(Str("pkE"), BigInt(MaxTime + 1)),
                            ImplicitObj(Str("pkI"), Str("att"), Str("sig"))),
                    PublicKey(1)),
               1, requests, Empty, 0).wallets

FrameEnvs == {e \in Envs : e.origin /\ e.passphrase /\ e.accessKey}

\* answers of the wallet client that take execute through every tier
FrameFeeOptions ==
  {[thrown |-> TRUE, options |-> <<>>],
   [thrown |-> FALSE, options |-> <<OptErc20, OptNative>>]}

FrameFeeTokens ==
  {NoFeeTokens,
   [thrown |-> FALSE, paymentAddress |-> Str("0xPay"), isArray |-> TRUE,
    tokens |-> <<Token("0xdai", "DAI"), Token("0x3C49", "USDC")>>]}

NextFrame ==
  \/ \E flags \in FlagSets : WalletCreate("main", "polygon", Undef, flags, 0)
  \/ \E ct \in SomeCiphertexts, ridArg \in 0..MaxRid :
       WalletStartSession("main", ct, ridArg)
  \/ WalletRemove("main")
  \/ WalletList
  \/ WalletAddress("main")
  \/ \E keyed \in BOOLEAN, answered \in BOOLEAN : Balances("main", keyed, answered)
  \/ \E cmd \in {"send-native", "swap"}, flag \in BOOLEAN, env \in FrameEnvs :
       TxStart(cmd, flag, TRUE, env)
  \/ \E initialized \in BOOLEAN : TxInitialize(initialized)
  \/ \E answer \in FrameFeeOptions : TxFeeOptions(answer)
  \/ \E answer \in FrameFeeTokens : TxFeeTokens(answer, NoBalances)
  \/ \E answer \in FrameFeeOptions : TxLastResort(answer)
  \/ \E accepted \in BOOLEAN : TxSend(accepted, "0xh1")

SpecFrame == InitFrame /\ [][NextFrame]_vars

(***************************************************************************)
(* SpecBuilder: builder setup, one Builder API call per step.              *)
(*   pc  idle -> auth -> project -> key -> done, any -> failed             *)
(***************************************************************************)
BuilderNames == {"", "agent"}

BuilderKeys == {1, 2}

ProjectIds == {7, 8}

BuilderAccessKeys == {"ak1", "ak2"}

\* what a Builder API call comes back with: a good answer, a status that is
\* not ok, or a 200 whose body lacks the expected member
ApiAnswers == {"ok", "notOk", "invalid"}

\* wallet.address of the wallet with this private key
EoaAddress(privateKey) == 100 + privateKey

ApiCall(api, answer) == [api |-> api, ok |-> answer = "ok"]

\* the message of the Error a Builder API call throws
ApiError(api, answer) ==
  IF answer = "notOk" THEN api \o " failed" ELSE api \o " returned invalid response"

\* builderSetup from its start to its first await on the Builder API
BuilderSetupStart(b, name, force, privateKey, proved) ==
  LET inv == [b EXCEPT !.name = name, !.force = force, !.before = b.config,
                       !.privateKey = 0, !.projectId = 0, !.calls = <<>>,
                       !.saved = FALSE, !.err = ""]
      existing == b.config
  IN IF name = ""
     THEN [inv EXCEPT !.pc = "failed", !.err = "Missing --name parameter"]
     ELSE IF existing.exists /\ ~force
     THEN [inv EXCEPT !.pc = "done"]
     ELSE IF ~proved
     THEN [inv EXCEPT !.pc = "failed", !.privateKey = privateKey, !.err = "ethauth"]
     ELSE [inv EXCEPT !.pc = "auth", !.privateKey = privateKey]

\* builderSetup after getDefaultAccessKey has settled: the config is saved
\* with the answer's access key, or the error is caught
AfterAccessKey_SaveAlways(b, answer, accessKey) ==
  LET called == [b EXCEPT !.calls = Append(@, ApiCall("GetDefaultAccessKey", answer))]
      saved == [called EXCEPT !.saved = TRUE,
                  !.config = [exists |-> TRUE, privateKey |-> b.privateKey,
                              eoaAddress |-> EoaAddress(b.privateKey),
                              accessKey |-> accessKey, projectId |-> b.projectId]]
  IN IF answer # "ok"
     THEN [saved EXCEPT !.pc = "failed", !.err = ApiError("GetDefaultAccessKey", answer)]
     ELSE [saved EXCEPT !.pc = "done"]

AfterAccessKey(b, answer, accessKey) ==
  LET called == [b EXCEPT !.calls = Append(@, ApiCall("GetDefaultAccessKey", answer))]
  IN IF answer # "ok"
     THEN [called EXCEPT !.pc = "failed", !.err = ApiError("GetDefaultAccessKey", answer)]
     ELSE [called EXCEPT !.pc = "done", !.saved = TRUE,
             !.config = [exists |-> TRUE, privateKey |-> b.privateKey,
                         eoaAddress |-> EoaAddress(b.privateKey),
                         accessKey |-> accessKey, projectId |-> b.projectId]]

BuilderSetup(name, force, privateKey, proved) ==
  /\ builder.pc \in {"idle", "done", "failed"}
  /\ cmds < MaxCmds
  /\ cmds' = cmds + 1
  /\ builder' = BuilderSetupStart(builder, name, force, privateKey, proved)
  /\ UNCHANGED <<now, requests, wallets, last, cw, tx, consumed, perm, stage, ui>>

\* getAuthToken settles
BuilderGetAuthToken(answer) ==
  /\ builder.pc = "auth"
  /\ builder' =
       LET called == [builder EXCEPT !.calls = Append(@, ApiCall("GetAuthToken", answer))]
       IN IF answer # "ok"
          THEN [called EXCEPT !.pc = "failed", !.err = ApiError("GetAuthToken", answer)]
          ELSE [called EXCEPT !.pc = "project"]
  /\ UNCHANGED <<now, requests, wallets, last, cw, tx, consumed, cmds, perm, stage, ui>>

\* createProject settles
BuilderCreateProject(answer, id) ==
  /\ builder.pc = "project"
  /\ builder' =
       LET called == [builder EXCEPT !.calls = Append(@, ApiCall("CreateProject", answer))]
       IN IF answer # "ok"
          THEN [called EXCEPT !.pc = "failed", !.err = ApiError("CreateProject", answer)]
          ELSE [called EXCEPT !.pc = "key", !.projectId = id]
  /\ UNCHANGED <<now, requests, wallets, last, cw, tx, consumed, cmds, perm, stage, ui>>

\* getDefaultAccessKey settles; saveBuilderConfig on success
BuilderGetDefaultAccessKey(answer, accessKey) ==
  /\ builder.pc = "key"
  /\ builder' = AfterAccessKey(builder, answer, accessKey)
  /\ UNCHANGED <<now, requests, wallets, last, cw, tx, consumed, cmds, perm, stage, ui>>

\* a store with no builder config
InitBuilder ==
  /\ now = 0
  /\ requests = Empty
  /\ wallets = Empty
  /\ last = NoLast
  /\ cw = CwIdle
  /\ tx = TxIdle
  /\ consumed = {}
  /\ cmds = 0
  /\ perm = PermIdle
  /\ stage = StageIdle
  /\ ui = UiIdle
  /\ builder = BuilderIdle

NextBuilder ==
  \/ \E name \in BuilderNames, force \in BOOLEAN, privateKey \in BuilderKeys,
        proved \in BOOLEAN : BuilderSetup(name, force, privateKey, proved)
  \/ \E answer \in ApiAnswers : BuilderGetAuthToken(answer)
  \/ \E answer \in ApiAnswers, id \in ProjectIds : BuilderCreateProject(answer, id)
  \/ \E answer \in ApiAnswers, accessKey \in BuilderAccessKeys :
        BuilderGetDefaultAccessKey(answer, accessKey)

SpecBuilder == InitBuilder /\ [][NextBuilder]_vars

AllThreeSucceeded ==
  <<ApiCall("GetAuthToken", "ok"), ApiCall("CreateProject", "ok"),
    ApiCall("GetDefaultAccessKey", "ok")>>

\* C38: builder setup with a stored config and no --force makes no Builder
\* API call and leaves the stored config as it was; otherwise the config is
\* written only after GetAuthToken, CreateProject and GetDefaultAccessKey
\* have all succeeded, and it is as before if any of them failed.
C38_ConfigAfterAllThree ==
  /\ builder.pc # "idle" /\ builder.before.exists /\ ~builder.force =>
       builder.calls = <<>> /\ ~builder.saved /\ builder.config = builder.before
  /\ builder.saved => builder.calls = AllThreeSucceeded
  /\ ~builder.saved => builder.config = builder.before
  /\ (\E i \in DOMAIN builder.calls : ~builder.calls[i].ok) =>
       builder.config = builder.before

\* builder setup --force over a stored config has replaced it after the three
\* calls succeeded
C38_Witness ==
  /\ builder.pc = "done"
  /\ builder.before.exists
  /\ builder.force
  /\ builder.saved
  /\ builder.calls = AllThreeSucceeded
  /\ builder.config # builder.before

(***************************************************************************)
(* SpecUi: the connector UI after an approval, from the sealing of the     *)
(* ciphertext to the end of connect().  A callbackUrl is the sequence of   *)
(* the pieces of its text, so that startsWith and new URL() are computed   *)
(* on the text.                                                            *)
(*   pc  idle -> fetch | balances -> done,  idle -> done                   *)
(***************************************************************************)
CallbackUrlTexts ==
  {<<>>,
   <<"https:", "//", "t.ngrok.io", "/callback">>,
   <<"HTTPS:", "//", "t.ngrok.io", "/callback">>,
   <<"http:", "//", "localhost", ":", "4001", "/callback">>,
   <<"http:", "//", "127.0.0.1", ":", "4001", "/callback">>,
   <<"http:", "//", "localhost", "/callback">>,
   <<"http:", "//", "localhost", ":", "4001", "@", "evil.example", "/callback">>,
   <<"http:", "//", "localhost", ":", "evil.example", "/callback">>,
   <<"http:", "//", "evil.example", "/callback">>,
   <<"ftp:", "//", "t.ngrok.io", "/callback">>,
   <<"/callback">>,
   <<"//", "evil.example", "/callback">>,
   <<"callback">>}

\* rawUrl.startsWith(prefix), the prefix given in pieces
StartsWith(text, prefix) ==
  Len(text) >= Len(prefix) /\ SubSeq(text, 1, Len(prefix)) = prefix

\* rawUrl.startsWith('/')
StartsWithSlash(text) == Len(text) > 0 /\ text[1] \in {"/callback", "//"}

\* the scheme of a URL text, lower-cased by the parser; "" when the piece is
\* no scheme
SchemeOf(piece) ==
  CASE piece \in {"https:", "HTTPS:"} -> "https:"
    [] piece = "http:" -> "http:"
    [] piece = "ftp:" -> "ftp:"
    [] OTHER -> ""

PortTexts == {"4001"}

NoParse == [ok |-> FALSE, protocol |-> "", hostname |-> ""]

\* new URL(rawUrl): throws (ok FALSE) without a scheme and "//", or with a
\* port that is no number; the host follows the last "@" of the authority
ParseUrl(text) ==
  IF Len(text) < 3 \/ SchemeOf(text[1]) = "" \/ text[2] # "//" THEN NoParse
  ELSE
    LET at == {i \in 3..Len(text) : text[i] = "@"}
        h == IF at = {} THEN 3 ELSE (CHOOSE i \in at : \A j \in at : i >= j) + 1
    IN IF h > Len(text) THEN NoParse
       ELSE IF /\ h + 1 <= Len(text)
               /\ text[h + 1] = ":"
               /\ (h + 2 > Len(text) \/ text[h + 2] \notin PortTexts)
       THEN NoParse
       ELSE [ok |-> TRUE, protocol |-> SchemeOf(text[1]), hostname |-> text[h]]

\* what getSafeCallbackUrl returns: null (ok FALSE), the raw relative text, or
\* url.toString() of the parsed URL
Safe(relative, url) ==
  [ok |-> TRUE, relative |-> relative, protocol |-> url.protocol, hostname |-> url.hostname]

NotSafe == [ok |-> FALSE, relative |-> FALSE, protocol |-> "", hostname |-> ""]

GetSafeCallbackUrl_AnyHttp(rawUrl) ==
  IF rawUrl = <<>> THEN NotSafe
  ELSE IF StartsWithSlash(rawUrl) THEN Safe(TRUE, NoParse)
  ELSE LET url == ParseUrl(rawUrl) IN
       IF ~url.ok THEN NotSafe
       ELSE IF url.protocol = "https:" THEN Safe(FALSE, url)
       ELSE IF url.protocol = "http:" THEN Safe(FALSE, url)
       ELSE NotSafe

GetSafeCallbackUrl(rawUrl) ==
  IF rawUrl = <<>> THEN NotSafe
  ELSE IF StartsWithSlash(rawUrl) THEN Safe(TRUE, NoParse)
  ELSE LET url == ParseUrl(rawUrl) IN
       IF ~url.ok THEN NotSafe
       ELSE IF url.protocol = "https:" THEN Safe(FALSE, url)
       ELSE IF url.protocol = "http:" /\ url.hostname \in {"localhost", "127.0.0.1"}
       THEN Safe(FALSE, url)
       ELSE NotSafe

\* connect(), from setCiphertext to its first await or its return
UiConnect ==
  /\ ui.pc = "idle"
  /\ LET callbackUrl == ui.callbackUrl
         ciphertextB64u == Seal(ConnectorPayload(ui.rid, "main", now), PublicKey(ui.rid))
         safeCallbackUrl == GetSafeCallbackUrl(callbackUrl)
         isHttpsCallback == callbackUrl # <<>> /\ StartsWith(callbackUrl, <<"https:", "//">>)
         isLocalCallback ==
           /\ callbackUrl # <<>>
           /\ \/ StartsWith(callbackUrl, <<"http:", "//", "localhost", ":">>)
              \/ StartsWith(callbackUrl, <<"http:", "//", "127.0.0.1", ":">>)
         sealed == [ui EXCEPT !.ciphertext = ciphertextB64u]
         post(via) == [via |-> via, protocol |-> safeCallbackUrl.protocol,
                       hostname |-> safeCallbackUrl.hostname,
                       ciphertext |-> ciphertextB64u]
     IN ui' =
          IF isHttpsCallback /\ safeCallbackUrl.ok
          THEN [sealed EXCEPT !.pc = "fetch", !.posted = post("fetch")]
          ELSE IF isLocalCallback /\ safeCallbackUrl.ok
          THEN [sealed EXCEPT !.pc = "done", !.callbackSent = TRUE, !.posted = post("form")]
          ELSE IF callbackUrl # <<>> /\ ~safeCallbackUrl.ok
          THEN [sealed EXCEPT !.pc = "done", !.callbackFailed = TRUE,
                  !.error = "Invalid or untrusted callbackUrl; redirect has been blocked."]
          ELSE [sealed EXCEPT !.pc = "balances"]
  /\ UNCHANGED <<now, requests, wallets, last, cw, tx, consumed, cmds, perm, stage, builder>>

\* the fetch to the callback settles: res.ok, !res.ok, or it throws
UiFetchSettles(outcome) ==
  /\ ui.pc = "fetch"
  /\ ui' = IF outcome = "ok"
           THEN [ui EXCEPT !.pc = "done", !.callbackSent = TRUE]
           ELSE [ui EXCEPT !.pc = "done", !.callbackFailed = TRUE]
  /\ UNCHANGED <<now, requests, wallets, last, cw, tx, consumed, cmds, perm, stage, builder>>

\* fetchBalancesAllChains settles, either way; connect() returns
UiBalancesSettle ==
  /\ ui.pc = "balances"
  /\ ui' = [ui EXCEPT !.pc = "done"]
  /\ UNCHANGED <<now, requests, wallets, last, cw, tx, consumed, cmds, perm, stage, builder>>

\* the blocks of the 'Next Step' panel that the page renders
Rendered(u) ==
  LET callbackUrl == u.callbackUrl # <<>>
      ciphertext == u.ciphertext # NoCiphertext
  IN {b \in {"sent", "failed", "sending", "manual", "textarea", "none"} :
        \/ b = "sent" /\ callbackUrl /\ u.callbackSent
        \/ b = "failed" /\ callbackUrl /\ u.callbackFailed
        \/ b = "sending" /\ callbackUrl /\ ~u.callbackSent /\ ~u.callbackFailed
        \/ b = "manual" /\ ~callbackUrl /\ ciphertext
        \/ b = "textarea" /\ ciphertext /\ (~callbackUrl \/ u.callbackFailed)
        \/ b = "none" /\ ~ciphertext}

\* the page opened with its rid and callbackUrl parameters, at any time
InitUi ==
  /\ now \in 0..MaxTime
  /\ requests = Empty
  /\ wallets = Empty
  /\ last = NoLast
  /\ cw = CwIdle
  /\ tx = TxIdle
  /\ consumed = {}
  /\ cmds = 0
  /\ perm = PermIdle
  /\ stage = StageIdle
  /\ builder = BuilderIdle
  /\ \E rid \in Rids, callbackUrl \in CallbackUrlTexts :
       ui = [UiIdle EXCEPT !.rid = rid, !.callbackUrl = callbackUrl]

NextUi ==
  \/ UiConnect
  \/ \E outcome \in {"ok", "notOk", "thrown"} : UiFetchSettles(outcome)
  \/ UiBalancesSettle

SpecUi == InitUi /\ [][NextUi]_vars

\* C36: after an approval that produced a ciphertext, for every callbackUrl
\* the page ends in a delivery state in which the ciphertext was handed to
\* the callback or is displayed for manual copy; it does not stay in the
\* 'sending to callback' state with the ciphertext hidden.
C36_TerminalDelivery ==
  ui.pc = "done" /\ ui.ciphertext # NoCiphertext =>
    /\ "sending" \notin Rendered(ui)
    /\ ui.callbackSent \/ "textarea" \in Rendered(ui)

\* the callbackUrl is https, or http to localhost or 127.0.0.1
Trusted(text) ==
  /\ ParseUrl(text).ok
  /\ \/ ParseUrl(text).protocol = "https:"
     \/ /\ ParseUrl(text).protocol = "http:"
        /\ ParseUrl(text).hostname \in {"localhost", "127.0.0.1"}

\* C37: the connector UI hands the ciphertext to fetch or to a form only for
\* a callbackUrl that is https, or http with host localhost or 127.0.0.1,
\* and then to that very host; for every other callbackUrl nothing is
\* transmitted.
C37_OnlyTrustedCallback ==
  /\ ui.posted.via # "none" =>
       /\ Trusted(ui.callbackUrl)
       /\ ui.posted.protocol = ParseUrl(ui.callbackUrl).protocol
       /\ ui.posted.hostname = ParseUrl(ui.callbackUrl).hostname
  /\ ~Trusted(ui.callbackUrl) => ui.posted = NoPost

\* the page was opened with a localhost callbackUrl and connect() has handed
\* the ciphertext to a form posted to localhost
C37_Witness ==
  /\ ui.pc = "done"
  /\ ui.callbackUrl = <<"http:", "//", "localhost", ":", "4001", "/callback">>
  /\ ui.callbackSent
  /\ ui.posted.via = "form"
  /\ ui.posted.hostname = "localhost"
  /\ ui.posted.ciphertext = ui.ciphertext

(***************************************************************************)
(* SpecChain: execute with a --chain argument on a wallet linked on        *)
(* polygon or on mainnet.  tx.chainId is the chain id the command hands to *)
(* runDappClientTx: the one the session is staged under and the one passed *)
(* to getFeeOptions, getFeeTokens and sendTransaction.                     *)
(***************************************************************************)
\* --chain as getArg returns it; "" stands for the null of an absent flag
ExecChainArgs == {"", "polygon", "mainnet", "bogus"}

\* send-native, send-token, swap: resolveNetwork(chainArg || session.chain ||
\* 'polygon').chainId; register, give-feedback: chainId: 137.  0 stands for
\* the throw 'Unknown chain'
CommandChainId(cmd, chainArg, session) ==
  IF cmd \in {"register", "give-feedback"} THEN 137
  ELSE ResolveNetwork(IF chainArg # "" THEN chainArg
                      ELSE IF session.chain # "" THEN session.chain
                      ELSE "polygon")

\* the command up to the return of syncStateAndGetStorage({walletName, chainId})
TxStartOn(cmd, chainArg, flag, env) ==
  /\ tx.pc = "idle"
  /\ LET call == CommandCall(cmd, flag)
         begun == [tx EXCEPT !.cmd = cmd, !.flag = flag, !.before = wallets, !.at = now]
         verdict == SyncStateAndGetStorage("main", wallets, env, now)
     IN tx' =
          IF ~Has(wallets, "main")
          THEN [begun EXCEPT !.pc = "failed", !.err = "Wallet not found"]
          ELSE
            LET chainId == CommandChainId(cmd, chainArg, wallets["main"]) IN
            IF chainId = 0
            THEN [begun EXCEPT !.pc = "failed", !.err = "Unknown chain"]
            ELSE IF ~call.executes
            THEN [begun EXCEPT !.pc = "done", !.result = "intent"]
            ELSE IF verdict # "ok"
            THEN [begun EXCEPT !.pc = "failed", !.executed = TRUE, !.err = verdict,
                               !.broadcast = call.broadcast,
                               !.preferNativeFee = call.preferNativeFee]
            ELSE [begun EXCEPT !.pc = "init", !.executed = TRUE,
                               !.broadcast = call.broadcast,
                               !.preferNativeFee = call.preferNativeFee,
                               !.indexerKey = env.indexerKey,
                               !.chainId = chainId]
  /\ UNCHANGED <<now, requests, wallets, last, cw, consumed, cmds, perm, stage, ui, builder>>

\* wallet main linked on polygon (137) or on mainnet (1)
InitChain ==
  /\ now = 0
  /\ last = NoLast
  /\ cw = CwIdle
  /\ tx = TxIdle
  /\ cmds = 0
  /\ perm = PermIdle
  /\ ui = UiIdle
  /\ builder = BuilderIdle
  /\ stage = StageIdle
  /\ consumed = {1}
  /\ \E chain \in {"polygon", "mainnet"} :
       /\ requests = Save(Empty, 1, NewRequest(1, "main", chain, Undef, 0, 0))
       /\ wallets =
            DecryptAndSaveSession("main",
              Seal(Payload(TRUE, 1, "main", Str("0xA1"), Num(ResolveNetwork(chain)),
                           ExplicitObj(Str("pkE"), BigInt(MaxTime + 1)),
                           ImplicitObj(Str("pkI"), Str("att"), Str("sig"))),
                   PublicKey(1)),
              1, requests, Empty, 0).wallets

NextChain ==
  \/ \E cmd \in Commands, chainArg \in ExecChainArgs, flag \in BOOLEAN, env \in Envs :
       TxStartOn(cmd, chainArg, flag, env)
  \/ \E initialized \in BOOLEAN : TxInitialize(initialized)
  \/ \E answer \in FrameFeeOptions : TxFeeOptions(answer)
  \/ \E answer \in FrameFeeTokens : TxFeeTokens(answer, NoBalances)
  \/ \E answer \in FrameFeeOptions : TxLastResort(answer)
  \/ \E accepted \in BOOLEAN : TxSend(accepted, "0xh1")

SpecChain == InitChain /\ [][NextChain]_vars

\* C35: an execute that got past staging, and so one that reaches the fee
\* lookup and sendTransaction, runs on the chain id stored in the
\* WalletSession it loaded; a chain argument resolving to another network is
\* rejected.
C35_SessionChainOnly ==
  tx.executed /\ tx.pc # "failed" /\ Has(tx.before, "main") =>
    tx.chainId = tx.before["main"].chainId.n

\* a WalletSession is written (created or its record changed) / deleted
Written == \E n \in DOMAIN wallets' : ~Has(wallets, n) \/ wallets'[n] # wallets[n]

Deleted == \E n \in DOMAIN wallets : ~Has(wallets', n)

\* C25: a step that writes a WalletSession is an ingestion that succeeded,
\* and a step that deletes one is wallet remove: execute (dry-run or
\* broadcast, succeeding or failing), balances, wallet list, wallet address,
\* wallet create and failed ingestions leave the wallet store as it was.
C25_OnlyIngestWritesOnlyRemoveDeletes ==
  [][/\ Written =>
          /\ \E ct \in SomeCiphertexts, ridArg \in 0..MaxRid :
               WalletStartSession("main", ct, ridArg)
          /\ last'.err = "ok"
          /\ ~Deleted
     /\ Deleted => WalletRemove("main") /\ ~Written]_vars

\* a broadcast execute has sent from a store that a second ingestion had
\* rewritten
C25_Witness ==
  /\ tx.pc = "done"
  /\ tx.sent # <<>>
  /\ last.cmd = "start-session"
  /\ last.err = "ok"
  /\ Has(last.before, "main")
  /\ wallets # last.before

(***************************************************************************)
(* Claims about the approval URL and its permission parameters.            *)
(***************************************************************************)
\* the approval URLs printed so far
PrintedUrls ==
  (IF last.cmd = "create" /\ last.err = "ok" THEN {last.url} ELSE {})
  \cup (IF Did(cw.steps, "print") THEN {cw.url} ELSE {})

PermissionParamNames ==
  {"erc20", "erc20To", "erc20Amount", "nativeLimit", "usdcLimit", "usdtLimit",
   "tokenLimits", "contracts"}

\* C21: no printed approval URL carries the private key of its request: the
\* key-valued parameter pub is not the stored privateKeyB64u, the parameters
\* added after rid, wallet, pub, chain, accessKey and callbackUrl are
\* permission parameters only, and no value among them is a key.
C21_NoPrivateKeyInUrl ==
  \A u \in PrintedUrls :
    /\ Has(requests, u.rid)
    /\ u.pub # requests[u.rid].privateKeyB64u
    /\ u.pub.half = "public"
    /\ ParamNames(u.params) \subseteq PermissionParamNames

\* both commands have printed a URL for requests whose private keys are stored
C21_Witness ==
  /\ last.cmd = "create" /\ last.err = "ok"
  /\ Did(cw.steps, "print")
  /\ last.rid # cw.rid
  /\ requests[last.rid].privateKeyB64u = SecretKey(last.rid)
  /\ requests[cw.rid].privateKeyB64u = SecretKey(cw.rid)
  /\ "erc20To" \in ParamNames(cw.url.params)

\* searchParams.get(name): the value of the first pair of that name
Get(searchParams, name) ==
  searchParams[CHOOSE i \in DOMAIN searchParams :
                 /\ searchParams[i].k = name
                 /\ \A j \in 1..(i - 1) : searchParams[j].k # name].v

Occurrences(list, x) == Cardinality({i \in DOMAIN list : list[i] = x})

\* the URLs applySessionPermissionParams has been applied to
AppliedUrls ==
  (IF perm.n >= 1 THEN {perm.url} ELSE {})
  \cup (IF perm.tried THEN {perm.fresh} ELSE {})

C23_AbsentUnlessGiven ==
  \A u \in AppliedUrls :
    LET given == ParamNames(u.params)
        args == perm.args
    IN /\ args.nativeLimit = Undef /\ args.polLimit = Undef => "nativeLimit" \notin given
       /\ args.usdtLimit = Undef => "usdtLimit" \notin given
       /\ args.tokenLimit = <<>> => "tokenLimits" \notin given
       /\ args.usdcTo = Undef /\ args.usdcAmount = Undef =>
            given \cap {"erc20", "erc20To", "erc20Amount"} = {}
       /\ Cardinality({i \in DOMAIN u.params : u.params[i].k = "usdcLimit"}) = 1
       /\ args.usdcLimit = Undef => Get(u.params, "usdcLimit") = <<"50">>

\* no permission flag at all: usdcLimit=50 and contracts are the only pairs
C23_Witness ==
  /\ perm.n = 1
  /\ perm.args = NoFlags
  /\ ParamNames(perm.url.params) = {"usdcLimit", "contracts"}
  /\ Get(perm.url.params, "usdcLimit") = <<"50">>

\* C24: applied to two equal fresh URLs with the same flags the function
\* gives the same pairs, and applied a second time to the same URL it leaves
\* the pairs as the first application made them (the lists of pairs are
\* equal, hence equal as sets).
C24_DeterministicIdempotent ==
  perm.tried /\ perm.n >= 1 => perm.url.params = perm.fresh.params

\* applied twice to one URL and once to a fresh one, with the one-off grant,
\* limits, token limits and contracts given
C24_Witness ==
  /\ perm.n = 2
  /\ perm.tried
  /\ Truthy(perm.args.usdcTo)
  /\ Truthy(perm.args.nativeLimit)
  /\ perm.args.tokenLimit # <<>>
  /\ perm.args.contract # <<>>
  /\ Len(perm.url.params) = 8

====
